---- MODULE Spec2Model ----
(***************************************************************************)
(* A model of the dynamic configuration client vendored under              *)
(* src/vendor/github.com/angel-one/go-config-client: the dotted-key path   *)
(* resolver, the typed accessors of the remote (AWS AppConfig) and the     *)
(* file-based provider, the change-listener registry and the remote poll   *)
(* loop.                                                                   *)
(*                                                                         *)
(* Values.  A Go interface{} value of a parsed configuration tree is a     *)
(* record with exactly one field, whose name is the dynamic type:          *)
(*   [null |-> TRUE]   nil                                                 *)
(*   [f |-> n]         float64, n counted in tenths (29 is 2.9)            *)
(*   [s |-> "x"]       string                                              *)
(*   [b |-> TRUE]      bool                                                *)
(*   [l |-> <<..>>]    []interface{}                                       *)
(*   [m |-> fn]        map[string]interface{}, fn a function on strings    *)
(* A Go string that is taken apart (a lookup key) is a sequence of         *)
(* one-character strings; a Go string that is only compared or appended    *)
(* to (a map key, a segment) is a TLA+ string.                             *)
(***************************************************************************)
EXTENDS Integers, Sequences, FiniteSets, TLC

VARIABLES
    provider,   \* "remote" (appConfigClient) or "file" (fileBasedClient)
    configs,    \* the client's configs map: source name -> loaded source
    call,       \* the client method called last: its name and arguments
    ret,        \* what that call returned: [val |-> value, err |-> error]
    listeners,  \* the client's listeners map: source name -> callback
    pc,         \* remote: where each watchConfig goroutine stands
    fetched,    \* remote: the GetConfiguration result each goroutine holds
    mu,         \* remote: each appConfig's mu: [writer, readers]
    signal,     \* remote: the number of values in the channel a.signal
    swaps,      \* history: per source, the snapshots swapped in, in order
    calls,      \* history: the listener invocations, in order
    ticks,      \* history: the number of ticker firings so far
    reader,     \* remote: the source a thread inside Get has read-locked
    fileCalls,  \* history: the listener invocations of the file-based client
    heap,       \* remote: the trees the parser has made: address -> tree
    refs,       \* remote: the address each source's data field points to
    build,      \* the architecture the program was compiled for
    threads,    \* lock level: where each goroutine stands and what it runs
    locks,      \* lock level: each mutex or row lock: who holds it
    table       \* counter: the committed rows of the counter table

\* What only the client state machine moves.
machine == <<listeners, pc, fetched, mu, signal, swaps, calls, ticks,
             reader, fileCalls, heap, refs, build, threads, locks, table>>

vars == <<provider, configs, call, ret, machine>>

----------------------------------------------------------------------------
(* Values *)

Null == [null |-> TRUE]
Num(n) == [f |-> n]
Str(s) == [s |-> s]
Bool(b) == [b |-> b]
Slice(q) == [l |-> q]
Map(fn) == [m |-> fn]

IsNull(v) == "null" \in DOMAIN v
IsNum(v) == "f" \in DOMAIN v
IsStr(v) == "s" \in DOMAIN v
IsBool(v) == "b" \in DOMAIN v
IsSlice(v) == "l" \in DOMAIN v
IsMap(v) == "m" \in DOMAIN v

\* The marker of a call that has not returned yet; never a Go value.
Pending == [pending |-> TRUE]
\* The marker of a map key that a generated tree leaves out; never a Go value.
Absent == [absent |-> TRUE]

\* The map holding the entries of opt whose value is not Absent.
MkMap(opt) ==
    Map([k \in {j \in DOMAIN opt : opt[j] # Absent} |-> opt[k]])

----------------------------------------------------------------------------
(* Strings *)

RECURSIVE String(_)
\* The Go string made of the characters cs.
String(cs) == IF cs = <<>> THEN "" ELSE Head(cs) \o String(Tail(cs))

RECURSIVE Split(_)
\* strings.Split(key, "."): the pieces between the dots, one more than
\* there are dots; the empty string splits into one empty piece.
Split(cs) ==
    IF cs = <<>> THEN <<"">>
    ELSE LET rest == Split(Tail(cs))
         IN  IF Head(cs) = "."
             THEN <<"">> \o rest
             ELSE <<Head(cs) \o rest[1]>> \o Tail(rest)

RECURSIVE JoinPrefix(_, _)
\* strings.Join(s[0:i], "."): the first i segments joined by dots.
JoinPrefix(s, i) ==
    IF i = 1 THEN s[1] ELSE JoinPrefix(s, i - 1) \o "." \o s[i]

\* s[i:]: the segments after the first i.
Rest(s, i) == SubSeq(s, i + 1, Len(s))

----------------------------------------------------------------------------
(* The path resolver *)

RECURSIVE getNoBackup(_, _, _)
\* get with the check of the recursion's result left out: a literal key that
\* is found is final, even when the remaining segments fail under it.
getNoBackup(kList, k, val) ==
    IF Len(kList) = 0
    THEN IF k = "" \/ k = "." THEN val ELSE Null
    ELSE IF IsMap(val)
         THEN LET newKey == k \o kList[1]
              IN  IF newKey \in DOMAIN val.m
                  THEN getNoBackup(Tail(kList), "", val.m[newKey])
                  ELSE getNoBackup(Tail(kList), newKey \o ".", val)
         ELSE Null

RECURSIVE get(_, _, _)
\* get(kList, key, val): key is the literal key accumulated so far at the
\* node val (with its trailing dot), kList the segments not yet consumed.
get(kList, k, val) ==
    IF Len(kList) = 0
    THEN IF k = "" \/ k = "." THEN val ELSE Null
    ELSE IF IsMap(val)
         THEN LET newKey == k \o kList[1]
                  found == newKey \in DOMAIN val.m
                  sub == IF found THEN get(Tail(kList), "", val.m[newKey])
                         ELSE Null
              IN  IF found /\ sub # Null
                  THEN sub
                  ELSE get(Tail(kList), newKey \o ".", val)
         ELSE Null

----------------------------------------------------------------------------
(* Errors: the messages of the package's error values; NoErr is Go's nil. *)

NoErr == "nil"
ErrorAppConfigNotAdded == "config not added"
ErrAppConfigNotFound == "config not found"
ErrAppConfigInvalidType == "config invalid type"

\* A Go return (value, error).
Ret(v, e) == [val |-> v, err |-> e]

----------------------------------------------------------------------------
(* The remote client's accessors.  cfgs is a.configs: source name ->      *)
(* appConfig, a record [version, data].                                    *)

\* Get refusing mappings: the whole tree and the mapping nodes are
\* reported as not found, only leaves are returned.
AppGetLeavesOnly(cfgs, config, keyCs) ==
    IF config \in DOMAIN cfgs
    THEN LET val == get(Split(keyCs), "", cfgs[config].data)
         IN  IF val = Null \/ IsMap(val)
             THEN Ret(Null, ErrAppConfigNotFound)
             ELSE Ret(val, NoErr)
    ELSE Ret(Null, ErrorAppConfigNotAdded)

\* appConfigClient.Get.  keyCs is the key as a sequence of characters.
AppGet(cfgs, config, keyCs) ==
    IF config \in DOMAIN cfgs
    THEN IF keyCs = <<>>
         THEN Ret(cfgs[config].data, NoErr)
         ELSE LET val == get(Split(keyCs), "", cfgs[config].data)
              IN  IF val = Null
                  THEN Ret(Null, ErrAppConfigNotFound)
                  ELSE Ret(val, NoErr)
    ELSE Ret(Null, ErrorAppConfigNotAdded)

----------------------------------------------------------------------------
(* Typed values.  T is one of the four scalar types of the accessors.      *)

Types == {"int", "float", "string", "bool"}

\* An int64.
I64(n) == [i |-> n]

\* One, in the unit floats are counted in.
Tenths == 10

\* The width an int64 has here, in bits: the conversion of a float64 has
\* the same cases at every width.
Int64Bits == 12

MaxInt64 == 2 ^ (Int64Bits - 1) - 1
MinInt64 == -(2 ^ (Int64Bits - 1))

\* The architectures: on amd64 the conversion of a float64 that no int64
\* holds gives the least int64, on arm64 the nearest one.
Builds == {"amd64", "arm64"}

\* The float64 n without its fraction, which is dropped towards zero.
Trunc(n) == IF n >= 0 THEN n \div Tenths ELSE -((-n) \div Tenths)

\* int64(f): the integer part of f when an int64 holds it; what the
\* architecture makes of it when none does (Go leaves that to the
\* implementation).
int64(f) ==
    LET t == Trunc(f)
    IN  IF MinInt64 <= t /\ t <= MaxInt64 THEN t
        ELSE IF build = "arm64" /\ t > 0 THEN MaxInt64
        ELSE MinInt64

\* The type assertion the remote accessor of T makes: v.(float64) for int and
\* float, v.(string), v.(bool).
Asserts(T, v) ==
    CASE T = "int" -> IsNum(v)
      [] T = "float" -> IsNum(v)
      [] T = "string" -> IsStr(v)
      [] T = "bool" -> IsBool(v)

\* What the accessor of T makes of a value that passed the assertion.
Conv(T, v) == IF T = "int" THEN I64(int64(v.f)) ELSE v

\* The zero value of T, returned beside an error.
Zero(T) ==
    CASE T = "int" -> I64(0)
      [] T = "float" -> Num(0)
      [] T = "string" -> Str("")
      [] T = "bool" -> Bool(FALSE)

\* A nil slice and a nil map: both have length 0, like the empty ones.
NilSlice == Slice(<<>>)
NilMap == Map(<<>>)

\* len(v) of a slice or a map.
LenOf(v) == IF IsSlice(v) THEN Len(v.l) ELSE Cardinality(DOMAIN v.m)

RECURSIVE KeepAsserted(_, _)
\* The loop of a typed slice getter: the elements that pass the assertion of
\* T, converted, in order; the others are skipped.
KeepAsserted(T, q) ==
    IF q = <<>> THEN <<>>
    ELSE IF Asserts(T, Head(q))
         THEN <<Conv(T, Head(q))>> \o KeepAsserted(T, Tail(q))
         ELSE KeepAsserted(T, Tail(q))

\* The loop of a typed map getter: the entries whose value passes the
\* assertion of T, converted; the others are skipped.
KeepAssertedMap(T, fn) ==
    [j \in {i \in DOMAIN fn : Asserts(T, fn[i])} |-> Conv(T, fn[j])]

----------------------------------------------------------------------------
(* The remote client's typed accessors *)

\* appConfigClient.GetD.
AppGetD(cfgs, config, keyCs, defaultValue) ==
    LET r == AppGet(cfgs, config, keyCs)
    IN  IF r.err = NoErr THEN r.val ELSE defaultValue

\* appConfigClient.GetInt, GetFloat, GetString, GetBool.
AppGetScalar(T, cfgs, config, keyCs) ==
    LET r == AppGet(cfgs, config, keyCs)
    IN  IF r.err # NoErr THEN Ret(Zero(T), r.err)
        ELSE IF Asserts(T, r.val) THEN Ret(Conv(T, r.val), NoErr)
        ELSE Ret(Zero(T), ErrAppConfigInvalidType)

\* appConfigClient.GetIntD, GetFloatD, GetStringD, GetBoolD.
AppGetScalarD(T, cfgs, config, keyCs, defaultValue) ==
    LET r == AppGetScalar(T, cfgs, config, keyCs)
    IN  IF r.err = NoErr THEN r.val ELSE defaultValue

\* appConfigClient.GetSlice.
AppGetSlice(cfgs, config, keyCs) ==
    LET r == AppGet(cfgs, config, keyCs)
    IN  IF r.err # NoErr THEN Ret(NilSlice, r.err)
        ELSE IF IsSlice(r.val) THEN Ret(r.val, NoErr)
        ELSE Ret(NilSlice, ErrAppConfigInvalidType)

\* appConfigClient.GetSliceD.
AppGetSliceD(cfgs, config, keyCs, defaultValue) ==
    LET r == AppGetSlice(cfgs, config, keyCs)
    IN  IF r.err = NoErr THEN r.val ELSE defaultValue

\* appConfigClient.GetIntSlice, GetFloatSlice, GetStringSlice, GetBoolSlice.
AppGetTypedSlice(T, cfgs, config, keyCs) ==
    LET r == AppGetSlice(cfgs, config, keyCs)
    IN  IF r.err # NoErr THEN Ret(NilSlice, r.err)
        ELSE Ret(Slice(KeepAsserted(T, r.val.l)), NoErr)

\* appConfigClient.GetIntSliceD, GetFloatSliceD, GetStringSliceD,
\* GetBoolSliceD.
AppGetTypedSliceD(T, cfgs, config, keyCs, defaultValue) ==
    LET r == AppGetTypedSlice(T, cfgs, config, keyCs)
    IN  IF r.err # NoErr \/ LenOf(r.val) = 0 THEN defaultValue ELSE r.val

\* appConfigClient.GetMap.
AppGetMap(cfgs, config, keyCs) ==
    LET r == AppGet(cfgs, config, keyCs)
    IN  IF r.err # NoErr THEN Ret(NilMap, r.err)
        ELSE IF IsMap(r.val) THEN Ret(r.val, NoErr)
        ELSE Ret(NilMap, ErrAppConfigInvalidType)

\* appConfigClient.GetMapD.
AppGetMapD(cfgs, config, keyCs, defaultValue) ==
    LET r == AppGetMap(cfgs, config, keyCs)
    IN  IF r.err # NoErr \/ LenOf(r.val) = 0 THEN defaultValue ELSE r.val

\* appConfigClient.GetIntMap, GetFloatMap, GetStringMap, GetBoolMap.
AppGetTypedMap(T, cfgs, config, keyCs) ==
    LET r == AppGetMap(cfgs, config, keyCs)
    IN  IF r.err # NoErr THEN Ret(NilMap, r.err)
        ELSE Ret(Map(KeepAssertedMap(T, r.val.m)), NoErr)

\* appConfigClient.GetIntMapD, GetFloatMapD, GetStringMapD, GetBoolMapD.
AppGetTypedMapD(T, cfgs, config, keyCs, defaultValue) ==
    LET r == AppGetTypedMap(T, cfgs, config, keyCs)
    IN  IF r.err # NoErr \/ LenOf(r.val) = 0 THEN defaultValue ELSE r.val

----------------------------------------------------------------------------
(* The file-based client reads through viper (github.com/spf13/viper       *)
(* v1.9.0, with github.com/spf13/cast), which is not vendored here: the    *)
(* following is what the calls made in filebased.go do on a tree parsed    *)
(* from JSON (numbers are float64) whose keys are lower-case and not       *)
(* numerals (viper folds case and reads a numeral as a slice index).       *)

ErrorFileBasedConfigNotAdded == "config not added"
ErrInvalidValueType == "invalid value type"

RECURSIVE searchIndexableWithPathPrefixes(_, _)
RECURSIVE searchFromPrefix(_, _, _)

\* viper's searchMapWithPathPrefixes: the value under the literal key made
\* of the first i segments, or what the remaining segments find below it.
searchMapWithPathPrefixes(fn, path, i) ==
    IF JoinPrefix(path, i) \notin DOMAIN fn THEN Null
    ELSE LET next == fn[JoinPrefix(path, i)]
         IN  IF i = Len(path) THEN next
             ELSE IF IsMap(next) \/ IsSlice(next)
                  THEN searchIndexableWithPathPrefixes(next, Rest(path, i))
                  ELSE Null

\* The loop of searchIndexableWithPathPrefixes from the prefix of i segments
\* down to the prefix of one: the longest prefix that finds a value wins.
searchFromPrefix(source, path, i) ==
    IF i = 0 THEN Null
    ELSE LET val == IF IsMap(source)
                    THEN searchMapWithPathPrefixes(source.m, path, i)
                    ELSE Null
         IN  IF val # Null THEN val ELSE searchFromPrefix(source, path, i - 1)

searchIndexableWithPathPrefixes(source, path) ==
    IF Len(path) = 0 THEN source ELSE searchFromPrefix(source, path, Len(path))

\* viper.Get(key) on the viper whose config is data.
ViperGet(data, keyCs) == searchIndexableWithPathPrefixes(data, Split(keyCs))

Digit(d) == <<"0", "1", "2", "3", "4", "5", "6", "7", "8", "9">>[d + 1]

RECURSIVE FormatNat(_)
FormatNat(n) ==
    IF n < 10 THEN Digit(n) ELSE FormatNat(n \div 10) \o Digit(n % 10)

\* strconv.FormatFloat(f, 'f', -1, 64).
FormatFloat(n) ==
    LET a == IF n < 0 THEN -n ELSE n
    IN  (IF n < 0 THEN "-" ELSE "") \o FormatNat(a \div Tenths)
            \o (IF a % Tenths = 0 THEN "" ELSE "." \o Digit(a % Tenths))

\* cast.ToString; "" for what does not convert.
CastToString(v) ==
    CASE IsStr(v) -> v.s
      [] IsNum(v) -> FormatFloat(v.f)
      [] IsBool(v) -> IF v.b THEN "true" ELSE "false"
      [] OTHER -> ""

\* cast.ToInt64, ToFloat64, ToString, ToBool.  No string of the model is a
\* numeral or a truth value, so a string gives the zero value; cast 1.4
\* makes no bool of a float.
Cast(T, v) ==
    CASE T = "int" ->
            I64(IF IsNum(v) THEN int64(v.f)
                ELSE IF IsBool(v) /\ v.b THEN 1 ELSE 0)
      [] T = "float" ->
            Num(IF IsNum(v) THEN v.f
                ELSE IF IsBool(v) /\ v.b THEN Tenths ELSE 0)
      [] T = "string" -> Str(CastToString(v))
      [] T = "bool" -> Bool(IsBool(v) /\ v.b)

RECURSIVE ToStrings(_)
ToStrings(q) ==
    IF q = <<>> THEN <<>> ELSE <<Str(CastToString(Head(q)))>> \o ToStrings(Tail(q))

\* cast.ToStringSlice: the elements of a slice as strings, the fields of a
\* string (the strings of the model hold no space), one string of another
\* scalar, nothing of nil or a map.
CastToStringSlice(v) ==
    CASE IsSlice(v) -> Slice(ToStrings(v.l))
      [] IsStr(v) -> IF v.s = "" THEN Slice(<<>>) ELSE Slice(<<v>>)
      [] IsNum(v) \/ IsBool(v) -> Slice(<<Str(CastToString(v))>>)
      [] OTHER -> Slice(<<>>)

\* cast.ToStringMap: a map as it is, an empty map of anything else.
CastToStringMap(v) == IF IsMap(v) THEN v ELSE Map(<<>>)

\* cast.ToStringMapString: the values of a map as strings.
CastToStringMapString(v) ==
    IF IsMap(v)
    THEN Map([j \in DOMAIN v.m |-> Str(CastToString(v.m[j]))])
    ELSE Map(<<>>)

----------------------------------------------------------------------------
(* The file-based client's accessors.  cfgs is f.configs: source name ->   *)
(* viper, a record [data].                                                 *)

\* fileBasedClient.Get.
FileGet(cfgs, config, keyCs) ==
    IF config \in DOMAIN cfgs
    THEN Ret(ViperGet(cfgs[config].data, keyCs), NoErr)
    ELSE Ret(Null, ErrorFileBasedConfigNotAdded)

\* fileBasedClient.GetD.
FileGetD(cfgs, config, keyCs, defaultValue) ==
    LET r == FileGet(cfgs, config, keyCs)
    IN  IF r.err # NoErr \/ r.val = Null THEN defaultValue ELSE r.val

\* GetInt, GetFloat, GetString, GetBool with the error of the unknown source
\* forgotten: the zero value comes back with a nil error.
FileGetScalarNoError(T, cfgs, config, keyCs) ==
    IF config \in DOMAIN cfgs
    THEN Ret(Cast(T, ViperGet(cfgs[config].data, keyCs)), NoErr)
    ELSE Ret(Zero(T), NoErr)

\* fileBasedClient.GetInt, GetFloat, GetString, GetBool.
FileGetScalar(T, cfgs, config, keyCs) ==
    IF config \in DOMAIN cfgs
    THEN Ret(Cast(T, ViperGet(cfgs[config].data, keyCs)), NoErr)
    ELSE Ret(Zero(T), ErrorFileBasedConfigNotAdded)

\* fileBasedClient.GetIntD, GetFloatD, GetStringD, GetBoolD.
FileGetScalarD(T, cfgs, config, keyCs, defaultValue) ==
    LET r == FileGetScalar(T, cfgs, config, keyCs)
    IN  IF r.err # NoErr \/ r.val = Zero(T) THEN defaultValue ELSE r.val

\* fileBasedClient.GetSlice.
FileGetSlice(cfgs, config, keyCs) ==
    LET r == FileGet(cfgs, config, keyCs)
    IN  IF r.err # NoErr THEN Ret(NilSlice, r.err)
        ELSE IF IsSlice(r.val) THEN Ret(r.val, NoErr)
        ELSE Ret(NilSlice, ErrInvalidValueType)

\* fileBasedClient.GetSliceD.
FileGetSliceD(cfgs, config, keyCs, defaultValue) ==
    LET r == FileGetSlice(cfgs, config, keyCs)
    IN  IF r.err # NoErr \/ LenOf(r.val) = 0 THEN defaultValue ELSE r.val

\* fileBasedClient.GetIntSlice, GetFloatSlice, GetBoolSlice (the loop over
\* GetSlice) and GetStringSlice (viper's GetStringSlice).
FileGetTypedSlice(T, cfgs, config, keyCs) ==
    IF T = "string"
    THEN IF config \in DOMAIN cfgs
         THEN Ret(CastToStringSlice(ViperGet(cfgs[config].data, keyCs)), NoErr)
         ELSE Ret(NilSlice, ErrorFileBasedConfigNotAdded)
    ELSE LET r == FileGetSlice(cfgs, config, keyCs)
         IN  IF r.err # NoErr THEN Ret(NilSlice, r.err)
             ELSE Ret(Slice(KeepAsserted(T, r.val.l)), NoErr)

\* fileBasedClient.GetIntSliceD, GetFloatSliceD, GetStringSliceD,
\* GetBoolSliceD.
FileGetTypedSliceD(T, cfgs, config, keyCs, defaultValue) ==
    LET r == FileGetTypedSlice(T, cfgs, config, keyCs)
    IN  IF r.err # NoErr \/ LenOf(r.val) = 0 THEN defaultValue ELSE r.val

\* fileBasedClient.GetMap.
FileGetMap(cfgs, config, keyCs) ==
    IF config \in DOMAIN cfgs
    THEN Ret(CastToStringMap(ViperGet(cfgs[config].data, keyCs)), NoErr)
    ELSE Ret(NilMap, ErrorFileBasedConfigNotAdded)

\* fileBasedClient.GetMapD.
FileGetMapD(cfgs, config, keyCs, defaultValue) ==
    LET r == FileGetMap(cfgs, config, keyCs)
    IN  IF r.err # NoErr \/ LenOf(r.val) = 0 THEN defaultValue ELSE r.val

\* fileBasedClient.GetIntMap, GetFloatMap, GetBoolMap (the loop over GetMap)
\* and GetStringMap (viper's GetStringMapString).
FileGetTypedMap(T, cfgs, config, keyCs) ==
    IF T = "string"
    THEN IF config \in DOMAIN cfgs
         THEN Ret(CastToStringMapString(ViperGet(cfgs[config].data, keyCs)),
                  NoErr)
         ELSE Ret(NilMap, ErrorFileBasedConfigNotAdded)
    ELSE LET r == FileGetMap(cfgs, config, keyCs)
         IN  IF r.err # NoErr THEN Ret(NilMap, r.err)
             ELSE Ret(Map(KeepAssertedMap(T, r.val.m)), NoErr)

\* fileBasedClient.GetIntMapD, GetFloatMapD, GetStringMapD, GetBoolMapD.
FileGetTypedMapD(T, cfgs, config, keyCs, defaultValue) ==
    LET r == FileGetTypedMap(T, cfgs, config, keyCs)
    IN  IF r.err # NoErr \/ LenOf(r.val) = 0 THEN defaultValue ELSE r.val

----------------------------------------------------------------------------
(* The client state machine at rest: the specifications of the pure        *)
(* functions start here and leave it alone.                                *)

MachineIdle ==
    /\ listeners = <<>>
    /\ pc = <<>>
    /\ fetched = <<>>
    /\ mu = <<>>
    /\ signal = 0
    /\ swaps = <<>>
    /\ calls = <<>>
    /\ ticks = 0
    /\ reader = "none"
    /\ fileCalls = <<>>
    /\ heap = <<>>
    /\ refs = <<>>
    /\ build \in Builds
    /\ threads = <<>>
    /\ locks = <<>>
    /\ table = <<>>

----------------------------------------------------------------------------
(* Inputs of the resolver specification *)

\* The longest dotted key tried, in characters.
MaxKeyLen == 5

KeyChars == {"a", "."}

\* Every key of at most n characters.
KeysUpTo(n) == UNION {[1..j -> KeyChars] : j \in 0..n}

\* The fixture of the specification: {"a.b": 1, "a": {"b": 2}} and "a.b".
ExampleTree ==
    Map([j \in {"a.b", "a"} |->
            IF j = "a" THEN Map([i \in {"b"} |-> Num(20)]) ELSE Num(10)])
ExampleKey == <<"a", ".", "b">>

ResolverKeys == KeysUpTo(MaxKeyLen) \cup {ExampleKey}

Leaves == {Num(10), Num(20)}

\* Maps two levels down: {} or {"a": leaf}.
Level2 == {MkMap([j \in {"a"} |-> x]) : x \in Leaves \cup {Absent}}

\* Maps one level down, with the keys "a" and "a.a".
Level1 ==
    {MkMap([j \in {"a", "a.a"} |-> IF j = "a" THEN x ELSE y]) :
        x \in Leaves \cup Level2 \cup {Null, Absent},
        y \in Leaves \cup {Absent}}

\* Trees with the top-level keys "a", "a.a" and "a.a.a": nested maps, flat
\* dotted keys, and every mixture of the two.
GeneratedTrees ==
    {MkMap([j \in {"a", "a.a", "a.a.a"} |->
                IF j = "a" THEN x ELSE IF j = "a.a" THEN y ELSE z]) :
        x \in Leaves \cup Level1 \cup {Absent},
        y \in Leaves \cup Level2 \cup {Null, Absent},
        z \in Leaves \cup {Absent}}

ResolverTrees == GeneratedTrees \cup {ExampleTree}

----------------------------------------------------------------------------
(* The resolver specification: one remote client holding one source, and  *)
(* Get called on it once, with any key (Get changes no state of the       *)
(* client, so one call shows all there is to see).                         *)

InitResolve ==
    /\ provider = "remote"
    /\ \E t \in ResolverTrees :
          configs = [n \in {"app"} |-> [version |-> "1", data |-> t]]
    /\ call = [op |-> "none"]
    /\ ret = Pending
    /\ MachineIdle

ResolveKey ==
    \E k \in ResolverKeys :
        /\ ret = Pending
        /\ call' = [op |-> "Get", config |-> "app", key |-> k]
        /\ ret' = AppGet(configs, "app", k)
        /\ UNCHANGED <<provider, configs, machine>>

NextResolve == ResolveKey

SpecResolve == InitResolve /\ [][NextResolve]_vars

----------------------------------------------------------------------------
(* The Client interface: each accessor, on the client of either provider.  *)

ClientGet(prov, cfgs, config, keyCs) ==
    IF prov = "remote" THEN AppGet(cfgs, config, keyCs)
    ELSE FileGet(cfgs, config, keyCs)

ClientGetD(prov, cfgs, config, keyCs, d) ==
    IF prov = "remote" THEN AppGetD(cfgs, config, keyCs, d)
    ELSE FileGetD(cfgs, config, keyCs, d)

ClientGetScalar(prov, T, cfgs, config, keyCs) ==
    IF prov = "remote" THEN AppGetScalar(T, cfgs, config, keyCs)
    ELSE FileGetScalar(T, cfgs, config, keyCs)

ClientGetScalarD(prov, T, cfgs, config, keyCs, d) ==
    IF prov = "remote" THEN AppGetScalarD(T, cfgs, config, keyCs, d)
    ELSE FileGetScalarD(T, cfgs, config, keyCs, d)

ClientGetSlice(prov, cfgs, config, keyCs) ==
    IF prov = "remote" THEN AppGetSlice(cfgs, config, keyCs)
    ELSE FileGetSlice(cfgs, config, keyCs)

ClientGetSliceD(prov, cfgs, config, keyCs, d) ==
    IF prov = "remote" THEN AppGetSliceD(cfgs, config, keyCs, d)
    ELSE FileGetSliceD(cfgs, config, keyCs, d)

ClientGetTypedSlice(prov, T, cfgs, config, keyCs) ==
    IF prov = "remote" THEN AppGetTypedSlice(T, cfgs, config, keyCs)
    ELSE FileGetTypedSlice(T, cfgs, config, keyCs)

ClientGetTypedSliceD(prov, T, cfgs, config, keyCs, d) ==
    IF prov = "remote" THEN AppGetTypedSliceD(T, cfgs, config, keyCs, d)
    ELSE FileGetTypedSliceD(T, cfgs, config, keyCs, d)

ClientGetMap(prov, cfgs, config, keyCs) ==
    IF prov = "remote" THEN AppGetMap(cfgs, config, keyCs)
    ELSE FileGetMap(cfgs, config, keyCs)

ClientGetMapD(prov, cfgs, config, keyCs, d) ==
    IF prov = "remote" THEN AppGetMapD(cfgs, config, keyCs, d)
    ELSE FileGetMapD(cfgs, config, keyCs, d)

ClientGetTypedMap(prov, T, cfgs, config, keyCs) ==
    IF prov = "remote" THEN AppGetTypedMap(T, cfgs, config, keyCs)
    ELSE FileGetTypedMap(T, cfgs, config, keyCs)

ClientGetTypedMapD(prov, T, cfgs, config, keyCs, d) ==
    IF prov = "remote" THEN AppGetTypedMapD(T, cfgs, config, keyCs, d)
    ELSE FileGetTypedMapD(T, cfgs, config, keyCs, d)

----------------------------------------------------------------------------
(* Inputs of the accessor specification.  A key is written as its pieces:  *)
(* dots, and runs of other characters.                                     *)

\* {"http": {"timeoutInMillis": 500}}, the scenario of the specification.
HttpTree ==
    Map([j \in {"http"} |-> Map([i \in {"timeoutInMillis"} |-> Num(5000)])])

\* One value of every kind, the zero values and the empty collections among
\* them.
RichTree ==
    Map([j \in {"http", "zero", "empty", "off", "on", "name", "rate", "neg",
                "xs", "mixed", "none", "m", "mm", "em", "nil"} |->
        CASE j = "http" -> Map([i \in {"timeoutInMillis"} |-> Num(5000)])
          [] j = "zero" -> Num(0)
          [] j = "empty" -> Str("")
          [] j = "off" -> Bool(FALSE)
          [] j = "on" -> Bool(TRUE)
          [] j = "name" -> Str("x")
          [] j = "rate" -> Num(29)
          [] j = "neg" -> Num(-29)
          [] j = "xs" -> Slice(<<Num(10), Num(29)>>)
          [] j = "mixed" -> Slice(<<Num(10), Str("x"), Bool(TRUE)>>)
          [] j = "none" -> Slice(<<>>)
          [] j = "m" -> Map([i \in {"p", "q"} |->
                                IF i = "p" THEN Num(10) ELSE Num(20)])
          [] j = "mm" -> Map([i \in {"p", "q"} |->
                                 IF i = "p" THEN Num(10) ELSE Str("x")])
          [] j = "em" -> Map(<<>>)
          [] j = "nil" -> Null])

AccTrees == {HttpTree, RichTree}

AccKeys ==
    {<<j>> : j \in DOMAIN RichTree.m}
        \cup {<<>>, <<"missing">>, <<"http", ".", "timeoutInMillis">>,
              <<"http", ".", "missing">>, <<"m", ".", "p">>,
              <<"name", ".", "p">>}

\* "app" is the source the client holds, "other" one it was never given.
AccSources == {"app", "other"}

AnyDefaults == {Str("dflt")}

ScalarDefaults(T) ==
    CASE T = "int" -> {I64(1000), I64(7)}
      [] T = "float" -> {Num(15)}
      [] T = "string" -> {Str("dflt")}
      [] T = "bool" -> {Bool(TRUE)}

SliceDefaults == {Slice(<<Str("dflt")>>)}

TypedSliceDefaults(T) == {Slice(<<d>>) : d \in ScalarDefaults(T)}

MapDefaults == {Map([j \in {"d"} |-> Str("dflt")])}

TypedMapDefaults(T) == {Map([j \in {"d"} |-> d]) : d \in ScalarDefaults(T)}

----------------------------------------------------------------------------
(* The accessor specification: a client of either provider holding one     *)
(* source, and one accessor call on it (no accessor changes the client).   *)

InitAcc ==
    /\ provider \in {"remote", "file"}
    /\ \E t \in AccTrees :
          configs = [n \in {"app"} |->
                        IF provider = "remote"
                        THEN [version |-> "1", data |-> t]
                        ELSE [data |-> t]]
    /\ call = [op |-> "none"]
    /\ ret = Pending
    /\ MachineIdle

CallGet ==
    \E c \in AccSources, k \in AccKeys :
        /\ ret = Pending
        /\ call' = [op |-> "Get", config |-> c, key |-> k]
        /\ ret' = ClientGet(provider, configs, c, k)
        /\ UNCHANGED <<provider, configs, machine>>

CallGetD ==
    \E c \in AccSources, k \in AccKeys, d \in AnyDefaults :
        /\ ret = Pending
        /\ call' = [op |-> "GetD", config |-> c, key |-> k, d |-> d]
        /\ ret' = [val |-> ClientGetD(provider, configs, c, k, d)]
        /\ UNCHANGED <<provider, configs, machine>>

CallGetScalar ==
    \E T \in Types, c \in AccSources, k \in AccKeys :
        /\ ret = Pending
        /\ call' = [op |-> "GetScalar", T |-> T, config |-> c, key |-> k]
        /\ ret' = ClientGetScalar(provider, T, configs, c, k)
        /\ UNCHANGED <<provider, configs, machine>>

CallGetScalarD ==
    \E T \in Types, c \in AccSources, k \in AccKeys :
        \E d \in ScalarDefaults(T) :
            /\ ret = Pending
            /\ call' = [op |-> "GetScalarD", T |-> T, config |-> c,
                        key |-> k, d |-> d]
            /\ ret' = [val |-> ClientGetScalarD(provider, T, configs, c, k, d)]
            /\ UNCHANGED <<provider, configs, machine>>

CallGetSlice ==
    \E c \in AccSources, k \in AccKeys :
        /\ ret = Pending
        /\ call' = [op |-> "GetSlice", config |-> c, key |-> k]
        /\ ret' = ClientGetSlice(provider, configs, c, k)
        /\ UNCHANGED <<provider, configs, machine>>

CallGetSliceD ==
    \E c \in AccSources, k \in AccKeys, d \in SliceDefaults :
        /\ ret = Pending
        /\ call' = [op |-> "GetSliceD", config |-> c, key |-> k, d |-> d]
        /\ ret' = [val |-> ClientGetSliceD(provider, configs, c, k, d)]
        /\ UNCHANGED <<provider, configs, machine>>

CallGetTypedSlice ==
    \E T \in Types, c \in AccSources, k \in AccKeys :
        /\ ret = Pending
        /\ call' = [op |-> "GetTypedSlice", T |-> T, config |-> c, key |-> k]
        /\ ret' = ClientGetTypedSlice(provider, T, configs, c, k)
        /\ UNCHANGED <<provider, configs, machine>>

CallGetTypedSliceD ==
    \E T \in Types, c \in AccSources, k \in AccKeys :
        \E d \in TypedSliceDefaults(T) :
            /\ ret = Pending
            /\ call' = [op |-> "GetTypedSliceD", T |-> T, config |-> c,
                        key |-> k, d |-> d]
            /\ ret' = [val |->
                          ClientGetTypedSliceD(provider, T, configs, c, k, d)]
            /\ UNCHANGED <<provider, configs, machine>>

CallGetMap ==
    \E c \in AccSources, k \in AccKeys :
        /\ ret = Pending
        /\ call' = [op |-> "GetMap", config |-> c, key |-> k]
        /\ ret' = ClientGetMap(provider, configs, c, k)
        /\ UNCHANGED <<provider, configs, machine>>

CallGetMapD ==
    \E c \in AccSources, k \in AccKeys, d \in MapDefaults :
        /\ ret = Pending
        /\ call' = [op |-> "GetMapD", config |-> c, key |-> k, d |-> d]
        /\ ret' = [val |-> ClientGetMapD(provider, configs, c, k, d)]
        /\ UNCHANGED <<provider, configs, machine>>

CallGetTypedMap ==
    \E T \in Types, c \in AccSources, k \in AccKeys :
        /\ ret = Pending
        /\ call' = [op |-> "GetTypedMap", T |-> T, config |-> c, key |-> k]
        /\ ret' = ClientGetTypedMap(provider, T, configs, c, k)
        /\ UNCHANGED <<provider, configs, machine>>

CallGetTypedMapD ==
    \E T \in Types, c \in AccSources, k \in AccKeys :
        \E d \in TypedMapDefaults(T) :
            /\ ret = Pending
            /\ call' = [op |-> "GetTypedMapD", T |-> T, config |-> c,
                        key |-> k, d |-> d]
            /\ ret' = [val |->
                          ClientGetTypedMapD(provider, T, configs, c, k, d)]
            /\ UNCHANGED <<provider, configs, machine>>

NextAcc ==
    \/ CallGet
    \/ CallGetD
    \/ CallGetScalar
    \/ CallGetScalarD
    \/ CallGetSlice
    \/ CallGetSliceD
    \/ CallGetTypedSlice
    \/ CallGetTypedSliceD
    \/ CallGetMap
    \/ CallGetMapD
    \/ CallGetTypedMap
    \/ CallGetTypedMapD

SpecAcc == InitAcc /\ [][NextAcc]_vars

----------------------------------------------------------------------------
(* The integer specification: a client of either provider, compiled for    *)
(* either architecture, holding one source with the number x as a scalar,  *)
(* and with x and y in a list and in a mapping; and one call of an integer *)
(* accessor on it.                                                         *)

\* The fractions tried around zero reach this far, in tenths.
MaxTenths == 35

\* The numbers stored, in tenths: those around zero, and those around the
\* greatest and the least int64.
IntInputs ==
    (-MaxTenths..MaxTenths)
        \cup {MaxInt64 * Tenths + e : e \in {0, 9, 10, 20}}
        \cup {MinInt64 * Tenths - e : e \in {0, 9, 10, 20}}

IntTree(x, y) ==
    Map([j \in {"n", "xs", "m"} |->
        CASE j = "n" -> Num(x)
          [] j = "xs" -> Slice(<<Num(x), Num(y)>>)
          [] j = "m" -> Map([i \in {"p", "q"} |->
                                IF i = "p" THEN Num(x) ELSE Num(y)])])

InitInt ==
    /\ provider \in {"remote", "file"}
    /\ \E x \in IntInputs, y \in {-29, 29} :
          configs = [n \in {"app"} |->
                        IF provider = "remote"
                        THEN [version |-> "1", data |-> IntTree(x, y)]
                        ELSE [data |-> IntTree(x, y)]]
    /\ call = [op |-> "none"]
    /\ ret = Pending
    /\ MachineIdle

CallGetInt ==
    /\ ret = Pending
    /\ call' = [op |-> "GetInt", config |-> "app", key |-> <<"n">>]
    /\ ret' = ClientGetScalar(provider, "int", configs, "app", <<"n">>)
    /\ UNCHANGED <<provider, configs, machine>>

CallGetIntSlice ==
    /\ ret = Pending
    /\ call' = [op |-> "GetIntSlice", config |-> "app", key |-> <<"xs">>]
    /\ ret' = ClientGetTypedSlice(provider, "int", configs, "app", <<"xs">>)
    /\ UNCHANGED <<provider, configs, machine>>

CallGetIntMap ==
    /\ ret = Pending
    /\ call' = [op |-> "GetIntMap", config |-> "app", key |-> <<"m">>]
    /\ ret' = ClientGetTypedMap(provider, "int", configs, "app", <<"m">>)
    /\ UNCHANGED <<provider, configs, machine>>

NextInt ==
    \/ CallGetInt
    \/ CallGetIntSlice
    \/ CallGetIntMap

SpecInt == InitInt /\ [][NextInt]_vars

----------------------------------------------------------------------------
(* The listener registry of both clients *)

Put(ls, k, v) ==
    [j \in (DOMAIN ls) \cup {k} |-> IF j = k THEN v ELSE ls[j]]

Delete(ls, k) ==
    [j \in (DOMAIN ls) \ {k} |-> ls[j]]

\* A registration that keeps the callback a name already has.
AppAddKeepsFirst(cfgs, ls, config, listener) ==
    IF config \notin DOMAIN cfgs
    THEN [listeners |-> ls, err |-> ErrorAppConfigNotAdded]
    ELSE [listeners |-> IF config \in DOMAIN ls THEN ls
                        ELSE Put(ls, config, listener),
          err |-> NoErr]

AppAddChangeListener(cfgs, ls, config, listener) ==
    IF config \notin DOMAIN cfgs
    THEN [listeners |-> ls, err |-> ErrorAppConfigNotAdded]
    ELSE [listeners |-> Put(ls, config, listener), err |-> NoErr]

AppRemoveChangeListener(cfgs, ls, config) ==
    IF config \notin DOMAIN cfgs
    THEN [listeners |-> ls, err |-> ErrorAppConfigNotAdded]
    ELSE [listeners |-> Delete(ls, config), err |-> NoErr]

FileAddChangeListener(cfgs, ls, config, listener) ==
    [listeners |-> Put(ls, config, listener), err |-> NoErr]

FileRemoveChangeListener(cfgs, ls, config) ==
    [listeners |-> Delete(ls, config), err |-> NoErr]

ClientAddChangeListener(prov, cfgs, ls, config, listener) ==
    IF prov = "remote"
    THEN AppAddChangeListener(cfgs, ls, config, listener)
    ELSE FileAddChangeListener(cfgs, ls, config, listener)

ClientRemoveChangeListener(prov, cfgs, ls, config) ==
    IF prov = "remote"
    THEN AppRemoveChangeListener(cfgs, ls, config)
    ELSE FileRemoveChangeListener(cfgs, ls, config)

----------------------------------------------------------------------------
(* Inputs of the client specification *)

\* The ticker firings of one behaviour, over all watchers.
MaxTicks == 2

\* options.configNames, and a name that is not among them.
ConfigNames == {"app", "db"}

SourceNames == ConfigNames \cup {"other"}

\* The names a caller passes to the registry of a client: the file-based
\* one is also tried with the path of a source's file.
RegistryNames(prov) ==
    IF prov = "file" THEN SourceNames \cup {"configs/app.json"}
    ELSE SourceNames

\* The functions a caller registers.
Callbacks == {"cb1", "cb2"}

\* What the service answers: a version label and a document.
Versions == {"1", "2"}

Documents == {"docB", "bad"}

TreeA == MkMap([k \in {"a"} |-> Num(10)])

TreeB == MkMap([k \in {"a"} |-> Num(20)])

\* The documents of the configured type.
ValidDocuments == {"docB"}

\* An unmarshaller that accepts every document.
parserNeverFails(content) ==
    [err |-> NoErr, data |-> IF content = "docB" THEN TreeB ELSE Null]

\* a.parser: the unmarshaller of the configured type; it fails on a
\* document that is not of that type.
parser(content) ==
    IF content = "docB"
    THEN [err |-> NoErr, data |-> TreeB]
    ELSE [err |-> "parse error", data |-> Null]

\* The comparison of watchConfig that is always true.
AlwaysChanged(resultVersion, heldVersion) ==
    TRUE

\* The comparison of watchConfig: has the service a version other than the
\* one held?
Changed(resultVersion, heldVersion) ==
    resultVersion # heldVersion

NoResult == [none |-> TRUE]

\* An assignment that writes the new tree into the map the source has.
AttachInPlace(h, rf, n, k, tree) ==
    [heap |-> [h EXCEPT ![rf[n]] = tree], refs |-> rf]

\* config.data = data: the field of source n is pointed at the map the
\* parser made in its k-th swap, a map of its own; the map the field
\* pointed at is left as it is.
Attach(h, rf, n, k, tree) ==
    [heap |-> [a \in (DOMAIN h) \cup {<<n, k>>} |->
                  IF a = <<n, k>> THEN tree ELSE h[a]],
     refs |-> [rf EXCEPT ![n] = <<n, k>>]]

MuFree == [writer |-> FALSE, readers |-> 0]

----------------------------------------------------------------------------
(* The client specification: a client of either provider, its listener    *)
(* registry, and for the remote client one watchConfig goroutine per       *)
(* source that loaded.                                                     *)

\* newAppConfigClient and newFileBasedClient. The remote constructor skips a
\* source whose fetch or parse fails (here "db" may be one, or both); the
\* file-based one fails as a whole.
Init ==
    /\ provider \in {"remote", "file"}
    /\ \E loaded \in {ConfigNames, ConfigNames \ {"db"}, {}} :
          /\ provider = "file" => loaded = ConfigNames
          /\ configs = [n \in loaded |->
                           IF provider = "remote"
                           THEN [version |-> "1", data |-> TreeA]
                           ELSE [data |-> TreeA]]
          /\ LET watched == IF provider = "remote" THEN loaded ELSE {}
             IN  /\ pc = [n \in watched |-> "select"]
                 /\ fetched = [n \in watched |-> NoResult]
                 /\ mu = [n \in watched |-> MuFree]
                 /\ swaps = [n \in watched |-> <<>>]
                 /\ heap = [a \in {<<n, 0>> : n \in watched} |-> TreeA]
                 /\ refs = [n \in watched |-> <<n, 0>>]
    /\ listeners = <<>>
    /\ signal = 0
    /\ calls = <<>>
    /\ ticks = 0
    /\ reader = "none"
    /\ fileCalls = <<>>
    /\ build = "amd64"
    /\ threads = <<>>
    /\ locks = <<>>
    /\ table = <<>>
    /\ call = [op |-> "none"]
    /\ ret = Pending

\* a.mu is read-locked while a watcher runs the listener.
AMuReadLocked ==
    \E n \in DOMAIN pc : pc[n] = "calling"

AddChangeListener ==
    \E c \in RegistryNames(provider), l \in Callbacks :
        LET r == ClientAddChangeListener(provider, configs, listeners, c, l)
        IN  /\ ~AMuReadLocked
            /\ listeners' = r.listeners
            /\ call' = [op |-> "AddChangeListener", config |-> c,
                        listener |-> l]
            /\ ret' = [err |-> r.err]
            /\ UNCHANGED <<provider, configs, pc, fetched, mu, signal,
                           swaps, calls, ticks, reader, fileCalls,
                           heap, refs, build,
                   threads, locks, table>>

RemoveChangeListener ==
    \E c \in RegistryNames(provider) :
        LET r == ClientRemoveChangeListener(provider, configs, listeners, c)
        IN  /\ ~AMuReadLocked
            /\ listeners' = r.listeners
            /\ call' = [op |-> "RemoveChangeListener", config |-> c]
            /\ ret' = [err |-> r.err]
            /\ UNCHANGED <<provider, configs, pc, fetched, mu, signal,
                           swaps, calls, ticks, reader, fileCalls,
                           heap, refs, build,
                   threads, locks, table>>

\* The remote Close sends one value on a.signal, a channel of capacity 1:
\* it returns once there is room. The file-based Close empties both maps.
Close ==
    /\ \/ /\ provider = "remote"
          /\ signal = 0
          /\ signal' = 1
          /\ UNCHANGED <<configs, listeners>>
       \/ /\ provider = "file"
          /\ configs' = <<>>
          /\ listeners' = <<>>
          /\ UNCHANGED signal
    /\ call' = [op |-> "Close"]
    /\ ret' = [err |-> NoErr]
    /\ UNCHANGED <<provider, pc, fetched, mu, swaps, calls, ticks, reader,
                   fileCalls, heap, refs, build,
                   threads, locks, table>>

\* case <-ticker.C: GetConfiguration; an error ends the goroutine.
WatchTick(n) ==
    /\ pc[n] = "select"
    /\ ticks < MaxTicks
    /\ ticks' = ticks + 1
    /\ \/ /\ pc' = [pc EXCEPT ![n] = "exited"]
          /\ UNCHANGED fetched
       \/ \E v \in Versions, d \in Documents :
             /\ fetched' = [fetched EXCEPT ![n] =
                               [version |-> v, content |-> d]]
             /\ pc' = [pc EXCEPT ![n] = "fetched"]
    /\ UNCHANGED <<provider, configs, call, ret, listeners, mu, signal,
                   swaps, calls, reader, fileCalls, heap, refs, build,
                   threads, locks, table>>

\* config.mu.Lock() and the version test. Where the version fetched is the
\* one held, config.mu.Unlock() follows at once and the result of the fetch
\* is dropped.
WatchLock(n) ==
    /\ pc[n] = "fetched"
    /\ ~mu[n].writer
    /\ mu[n].readers = 0
    /\ IF Changed(fetched[n].version, configs[n].version)
       THEN /\ mu' = [mu EXCEPT ![n].writer = TRUE]
            /\ pc' = [pc EXCEPT ![n] = "parse"]
            /\ UNCHANGED fetched
       ELSE /\ pc' = [pc EXCEPT ![n] = "select"]
            /\ fetched' = [fetched EXCEPT ![n] = NoResult]
            /\ UNCHANGED mu
    /\ UNCHANGED <<provider, configs, call, ret, listeners, signal, swaps,
                   calls, ticks, reader, fileCalls, heap, refs, build,
                   threads, locks, table>>

\* The parse, under the lock, and the assignment of config.version. Where
\* the content does not parse, config.mu.Unlock() follows at once.
WatchSwap(n) ==
    /\ pc[n] = "parse"
    /\ LET r == fetched[n]
           p == parser(r.content)
       IN  IF p.err = NoErr
           THEN /\ configs' = [configs EXCEPT ![n].version = r.version]
                /\ swaps' = [swaps EXCEPT ![n] =
                                Append(@, [old |-> configs[n].version,
                                           new |-> r.version,
                                           data |-> p.data])]
                /\ pc' = [pc EXCEPT ![n] = "assign"]
                /\ UNCHANGED <<fetched, mu>>
           ELSE /\ pc' = [pc EXCEPT ![n] = "select"]
                /\ fetched' = [fetched EXCEPT ![n] = NoResult]
                /\ mu' = [mu EXCEPT ![n].writer = FALSE]
                /\ UNCHANGED <<configs, swaps>>
    /\ UNCHANGED <<provider, call, ret, listeners, signal, calls, ticks,
                   reader, fileCalls, heap, refs, build,
                   threads, locks, table>>

\* config.data = data: the second half of the swap, still under the lock.
\* data is the map the parser made for this cycle.
WatchAssign(n) ==
    LET tree == parser(fetched[n].content).data
        at == Attach(heap, refs, n, Len(swaps[n]), tree)
    IN  /\ pc[n] = "assign"
        /\ heap' = at.heap
        /\ refs' = at.refs
        /\ configs' = [configs EXCEPT ![n].data = at.heap[at.refs[n]]]
        /\ fetched' = [fetched EXCEPT ![n] = NoResult]
        /\ pc' = [pc EXCEPT ![n] = "notify"]
        /\ UNCHANGED <<provider, call, ret, listeners, mu, signal, swaps,
                       calls, ticks, reader, fileCalls, build,
                   threads, locks, table>>

\* a.mu.RLock(); the lookup in a.listeners; the call of the listener. With
\* no listener, a.mu.RUnlock() and config.mu.Unlock() follow at once.
WatchNotify(n) ==
    /\ pc[n] = "notify"
    /\ IF n \in DOMAIN listeners
       THEN /\ calls' = Append(calls, [name |-> n,
                                       listener |-> listeners[n],
                                       version |-> configs[n].version,
                                       data |-> configs[n].data,
                                       swap |-> Len(swaps[n])])
            /\ pc' = [pc EXCEPT ![n] = "calling"]
            /\ UNCHANGED mu
       ELSE /\ mu' = [mu EXCEPT ![n].writer = FALSE]
            /\ pc' = [pc EXCEPT ![n] = "select"]
            /\ UNCHANGED calls
    /\ UNCHANGED <<provider, configs, call, ret, listeners, fetched, signal,
                   swaps, ticks, reader, fileCalls, heap, refs, build,
                   threads, locks, table>>

\* The listener returns; a.mu.RUnlock(); config.mu.Unlock(); and back to
\* the select.
WatchListenerReturn(n) ==
    /\ pc[n] = "calling"
    /\ mu' = [mu EXCEPT ![n].writer = FALSE]
    /\ pc' = [pc EXCEPT ![n] = "select"]
    /\ UNCHANGED <<provider, configs, call, ret, listeners, fetched, signal,
                   swaps, calls, ticks, reader, fileCalls, heap, refs, build,
                   threads, locks, table>>

\* case <-a.signal: the goroutine that receives the value ends.
WatchSignal(n) ==
    /\ pc[n] = "select"
    /\ signal = 1
    /\ signal' = 0
    /\ pc' = [pc EXCEPT ![n] = "exited"]
    /\ UNCHANGED <<provider, configs, call, ret, listeners, fetched, mu,
                   swaps, calls, ticks, reader, fileCalls, heap, refs, build,
                   threads, locks, table>>

\* The key the reading thread asks for.
ReaderKey == <<"a">>

\* A reader that takes no notice of the writer.
ReaderNeverWaits(m, n) ==
    TRUE

\* A reader that waits for the writers of all sources.
ReaderWaitsForAll(m, n) ==
    \A k \in DOMAIN m : ~m[k].writer

\* result.mu.RLock() goes through when no writer holds the source's mu.
ReaderMayProceed(m, n) ==
    ~m[n].writer

\* Get on a loaded source, up to result.mu.RLock().
GetRLock(n) ==
    /\ reader = "none"
    /\ ReaderMayProceed(mu, n)
    /\ mu' = [mu EXCEPT ![n].readers = @ + 1]
    /\ reader' = n
    /\ UNCHANGED <<provider, configs, call, ret, listeners, pc, fetched,
                   signal, swaps, calls, ticks, fileCalls, heap, refs, build,
                   threads, locks, table>>

\* Get: the lookup in result.data, result.mu.RUnlock(), and the return.
GetReturn(n) ==
    /\ reader = n
    /\ call' = [op |-> "Get", config |-> n, key |-> ReaderKey]
    /\ ret' = AppGet(configs, n, ReaderKey)
    /\ mu' = [mu EXCEPT ![n].readers = @ - 1]
    /\ reader' = "none"
    /\ UNCHANGED <<provider, configs, listeners, pc, fetched, signal, swaps,
                   calls, ticks, fileCalls, heap, refs, build,
                   threads, locks, table>>

\* The file viper watches for a source: its path, not its name.
PathOf(n) ==
    "configs/" \o n \o ".json"

\* The file-based watch (viper.WatchConfig): on a write of the file of a
\* source viper reads it again, keeping the tree it has when that fails,
\* and then calls onConfigChange with the event, which looks the listener
\* up under the name of the event: the path of the file.
FileReload(n) ==
    /\ provider = "file"
    /\ ticks < MaxTicks
    /\ ticks' = ticks + 1
    /\ \E d \in Documents :
          configs' = IF n \in DOMAIN configs /\ parser(d).err = NoErr
                     THEN [configs EXCEPT ![n].data = parser(d).data]
                     ELSE configs
    /\ fileCalls' = IF PathOf(n) \in DOMAIN listeners
                    THEN Append(fileCalls,
                                [name |-> PathOf(n),
                                 listener |-> listeners[PathOf(n)],
                                 args |-> <<PathOf(n), "WRITE">>])
                    ELSE fileCalls
    /\ UNCHANGED <<provider, call, ret, listeners, pc, fetched, mu, signal,
                   swaps, calls, reader, heap, refs, build,
                   threads, locks, table>>

Next ==
    \/ AddChangeListener
    \/ RemoveChangeListener
    \/ Close
    \/ \E n \in DOMAIN pc : WatchTick(n)
    \/ \E n \in DOMAIN pc : WatchLock(n)
    \/ \E n \in DOMAIN pc : WatchSwap(n)
    \/ \E n \in DOMAIN pc : WatchAssign(n)
    \/ \E n \in DOMAIN pc : WatchNotify(n)
    \/ \E n \in DOMAIN pc : WatchListenerReturn(n)
    \/ \E n \in DOMAIN pc : WatchSignal(n)
    \/ \E n \in DOMAIN pc : GetRLock(n)
    \/ \E n \in DOMAIN pc : GetReturn(n)
    \/ \E n \in ConfigNames : FileReload(n)

Spec == Init /\ [][Next]_vars

----------------------------------------------------------------------------
(* The constructors *)

\* The longest list of configNames a client is constructed with.
MaxNames == 3

\* The most options that are missing or wrongly typed in one Params map
\* (with the well-formed maps, every combination up to that many is tried).
MaxDefects == 2

\* What reading a source for the first time returns when it fails.
ErrLoad == "load error"

\* What session.NewSession returns when it fails.
ErrSession == "session error"

\* The provider selectors.
FileBased == 0
ETCD == 1
AWSAppConfig == 2

ErrProviderNotSupported == "provider not supported"

\* The configuration types.
jsonType == "json"
yamlType == "yaml"
tomlType == "toml"

\* One minute, in seconds (a time.Duration is held in seconds here).
defaultAppConfigCheckInterval == 60

\* Option values that are not strings: a []string and a time.Duration.
\* Every other value of the model stands for itself: Str for a Go string,
\* Num for a number, Slice for a []interface{}.
Strs(q) == [strs |-> q]
Dur(n) == [dur |-> n]
IsStrs(v) == "strs" \in DOMAIN v
IsDur(v) == "dur" \in DOMAIN v

\* What a constructor leaves behind: client tells whether it returned a
\* client, configs is the configs map of that client, err the error it
\* returned, loads the sources it read, in order, checkInterval the interval
\* in the options of the client, and panic tells whether it panicked
\* instead of returning.
NoClient(e) ==
    [client |-> FALSE, configs |-> <<>>, err |-> e, loads |-> <<>>,
     checkInterval |-> 0, panic |-> FALSE]
NewClient(cfgs, read, interval) ==
    [client |-> TRUE, configs |-> cfgs, err |-> NoErr, loads |-> read,
     checkInterval |-> interval, panic |-> FALSE]

\* getAppConfigOption accepting a key that is missing as the empty string.
getAppConfigOptionLenient(options, key) ==
    IF key \in DOMAIN options /\ ~IsStr(options[key])
    THEN [val |-> "", err |-> "invalid " \o key \o ", must be a string"]
    ELSE [val |-> IF key \in DOMAIN options THEN options[key].s ELSE "",
          err |-> NoErr]

getAppConfigOption(options, key) ==
    IF key \in DOMAIN options
    THEN IF IsStr(options[key])
         THEN [val |-> options[key].s, err |-> NoErr]
         ELSE [val |-> "", err |-> "invalid " \o key \o ", must be a string"]
    ELSE [val |-> "", err |-> "missing " \o key]

\* The options getAppConfigClientOptions reads as strings, in its order.
AppConfigStringOptions ==
    <<"id", "region", "accessKeyId", "secretKey", "app", "env", "configType">>

\* getAppConfigClientOptions: the error of the first string option that is
\* missing or no string, then configNames, then checkInterval; a
\* checkInterval that is absent leaves the zero value, and zero becomes the
\* default.
getAppConfigClientOptions(options) ==
    LET keys == AppConfigStringOptions
        bad == {i \in DOMAIN keys :
                   getAppConfigOption(options, keys[i]).err # NoErr}
        first == CHOOSE i \in bad : \A j \in bad : i <= j
        fail(e) == [err |-> e, configType |-> "", configNames |-> <<>>,
                    checkInterval |-> 0]
        given == IF "checkInterval" \in DOMAIN options
                 THEN options["checkInterval"].dur ELSE 0
    IN  IF bad # {}
        THEN fail(getAppConfigOption(options, keys[first]).err)
        ELSE IF "configNames" \notin DOMAIN options
        THEN fail("missing configs")
        ELSE IF ~IsStrs(options["configNames"])
        THEN fail("invalid config names provided, should be an array of strings")
        ELSE IF "checkInterval" \in DOMAIN options
                /\ ~IsDur(options["checkInterval"])
        THEN fail("invalid check interval provided, must be a time duration")
        ELSE [err |-> NoErr,
              configType |-> getAppConfigOption(options, "configType").val,
              configNames |-> options["configNames"].strs,
              checkInterval |-> IF given = 0
                                THEN defaultAppConfigCheckInterval
                                ELSE given]

\* getParser: whether there is a parser for the type (nil when there is not).
getParser(configType) == configType \in {jsonType, yamlType, tomlType}

\* fetchAndWatchConfigs: the sources of names, in order, each stored if its
\* fetch and parse succeed and passed over if not.
RECURSIVE fetchAndWatchConfigs(_, _, _)
fetchAndWatchConfigs(names, failing, acc) ==
    IF names = <<>> THEN acc
    ELSE fetchAndWatchConfigs(
             Tail(names), failing,
             IF Head(names) \in failing THEN acc
             ELSE Put(acc, Head(names), [version |-> "1", data |-> TreeA]))

\* The names fetchAndWatchConfigs gets through when the parser is nil: the
\* first source that is fetched is passed to the nil parser, which panics.
RECURSIVE UntilFetched(_, _)
UntilFetched(names, failing) ==
    IF names = <<>> THEN <<>>
    ELSE IF Head(names) \in failing
         THEN <<Head(names)>> \o UntilFetched(Tail(names), failing)
         ELSE <<Head(names)>>

\* newAppConfigClient.  failing are the sources whose fetch fails (or, with
\* a parser, whose content does not parse), sessionFails tells whether
\* session.NewSession fails.
newAppConfigClient(options, failing, sessionFails) ==
    LET o == getAppConfigClientOptions(options)
        read == UntilFetched(o.configNames, failing)
    IN  IF o.err # NoErr THEN NoClient(o.err)
        ELSE IF sessionFails THEN NoClient(ErrSession)
        ELSE IF ~getParser(o.configType)
                /\ read # <<>> /\ read[Len(read)] \notin failing
        THEN [NoClient(NoErr) EXCEPT !.panic = TRUE, !.loads = read]
        ELSE NewClient(fetchAndWatchConfigs(o.configNames, failing, <<>>),
                       o.configNames, o.checkInterval)

\* getFileBasedClientOptions: configsDirectory, then configNames, then
\* configType, which must be one of the three types.
getFileBasedClientOptions(options) ==
    LET fail(e) == [err |-> e, configNames |-> <<>>]
    IN  IF "configsDirectory" \notin DOMAIN options
        THEN fail("config directory not provided")
        ELSE IF ~IsStr(options["configsDirectory"])
        THEN fail("invalid config directory provided")
        ELSE IF "configNames" \notin DOMAIN options
        THEN fail("no configs provided to be used")
        ELSE IF ~IsStrs(options["configNames"])
        THEN fail("invalid config names provided, should be an array of strings")
        ELSE IF "configType" \notin DOMAIN options
        THEN fail("no config type provided")
        ELSE IF \/ ~IsStr(options["configType"])
                \/ options["configType"].s \notin {jsonType, yamlType, tomlType}
        THEN fail("invalid config type provided should be one of json, yaml or toml")
        ELSE [err |-> NoErr, configNames |-> options["configNames"].strs]

\* A file-based constructor that passes over what does not load.
newFileBasedClientPartial(options, failing) ==
    LET o == getFileBasedClientOptions(options)
        names == o.configNames
    IN  IF o.err # NoErr THEN NoClient(o.err)
        ELSE NewClient([n \in {names[i] : i \in DOMAIN names} \ failing |->
                           [data |-> TreeA]],
                       names, 0)

\* The loop of newFileBasedClient: the first source that does not load ends
\* it with the error and without a client.
RECURSIVE getConfigs(_, _, _, _)
getConfigs(names, failing, acc, read) ==
    IF names = <<>> THEN NewClient(acc, read, 0)
    ELSE IF Head(names) \in failing
         THEN [NoClient(ErrLoad) EXCEPT !.loads = Append(read, Head(names))]
         ELSE getConfigs(Tail(names), failing,
                         Put(acc, Head(names), [data |-> TreeA]),
                         Append(read, Head(names)))

newFileBasedClient(options, failing) ==
    LET o == getFileBasedClientOptions(options)
    IN  IF o.err # NoErr THEN NoClient(o.err)
        ELSE getConfigs(o.configNames, failing, <<>>, <<>>)

\* New with the ETCD selector taken for the file-based provider.
NewWithETCD(selector, params, failing, sessionFails) ==
    IF selector \in {FileBased, ETCD}
    THEN newFileBasedClient(params, failing)
    ELSE IF selector = AWSAppConfig
    THEN newAppConfigClient(params, failing, sessionFails)
    ELSE NoClient(ErrProviderNotSupported)

New(selector, params, failing, sessionFails) ==
    IF selector = FileBased THEN newFileBasedClient(params, failing)
    ELSE IF selector = AWSAppConfig
    THEN newAppConfigClient(params, failing, sessionFails)
    ELSE NoClient(ErrProviderNotSupported)

RECURSIVE NameLists(_)
NameLists(n) ==
    IF n = 0 THEN {<<>>}
    ELSE NameLists(n - 1) \cup
         {Append(q, c) : q \in {x \in NameLists(n - 1) : Len(x) = n - 1},
                         c \in SourceNames}

\* The Params map with the entries of opt that are not Absent.
Params(opt) == MkMap(opt).m

\* How an option is given: as it should be, not at all, or with a value of
\* another type.
Shapes == {"ok", "missing", "wrong"}

\* The assignments of shapes to keys with at most MaxDefects not "ok".
ShapesOf(keys) ==
    {f \in [keys -> Shapes] :
        Cardinality({k \in keys : f[k] # "ok"}) <= MaxDefects}

\* The value given for an option that should be a string.
StringOption(shape, s) ==
    IF shape = "ok" THEN Str(s)
    ELSE IF shape = "missing" THEN Absent ELSE Num(10)

\* The value given for configNames; the wrong one is a []interface{}.
NamesOption(shape, names) ==
    IF shape = "ok" THEN Strs(names)
    ELSE IF shape = "missing" THEN Absent
    ELSE Slice([i \in DOMAIN names |-> Str(names[i])])

\* checkInterval: absent, zero, thirty seconds, or a plain number.
CheckIntervals == {Absent, Dur(0), Dur(30), Num(30)}

RemoteKeys ==
    {AppConfigStringOptions[i] : i \in DOMAIN AppConfigStringOptions}
       \cup {"configNames", "checkInterval"}

\* The Params of the remote client: every option as it should be, with the
\* names and the checkInterval varied.
RemoteParams(names, interval, configType) ==
    Params([k \in RemoteKeys |->
               IF k = "configNames" THEN Strs(names)
               ELSE IF k = "checkInterval" THEN interval
               ELSE IF k = "configType" THEN Str(configType)
               ELSE Str("v")])

\* The Params of the remote client with options missing or wrongly typed.
RemoteDefective ==
    {Params([k \in RemoteKeys |->
                IF k = "configNames" THEN NamesOption(f[k], <<"app", "db">>)
                ELSE IF k = "checkInterval" THEN Absent
                ELSE IF k = "configType" THEN StringOption(f[k], jsonType)
                ELSE StringOption(f[k], "v")]) :
        f \in ShapesOf(RemoteKeys \ {"checkInterval"})}

FileKeys == {"configsDirectory", "configNames", "configType"}

FileParams(names, configType) ==
    Params([k \in FileKeys |->
               IF k = "configNames" THEN Strs(names)
               ELSE IF k = "configType" THEN Str(configType)
               ELSE Str("configs")])

FileDefective ==
    {Params([k \in FileKeys |->
                IF k = "configNames" THEN NamesOption(f[k], <<"app", "db">>)
                ELSE IF k = "configType" THEN StringOption(f[k], t)
                ELSE StringOption(f[k], "configs")]) :
        f \in ShapesOf(FileKeys), t \in {jsonType, "xml"}}

\* The selectors New is called with: the three declared ones, and one on
\* either side of them.
Selectors == (FileBased - 1)..(AWSAppConfig + 1)

\* The client the selector stands for.
ProviderOf(selector) ==
    IF selector = FileBased THEN "file"
    ELSE IF selector = AWSAppConfig THEN "remote" ELSE "none"

\* The calls of New: the well-formed Params of either provider with any list
\* of names, any of them failing to load, and any checkInterval; the
\* defective Params and the other configuration types with the names "app"
\* and "db"; and the other selectors with Params of either kind.
NewCalls ==
    LET mk(sel, params, failing, sessionFails) ==
            [op |-> "New", provider |-> sel, params |-> params,
             failing |-> failing, sessionFails |-> sessionFails]
        two == <<"app", "db">>
    IN  {mk(AWSAppConfig, RemoteParams(names, i, jsonType), failing, s) :
            names \in NameLists(MaxNames), i \in CheckIntervals,
            failing \in SUBSET SourceNames, s \in BOOLEAN}
        \cup
        {mk(AWSAppConfig, p, failing, s) :
            p \in RemoteDefective
                     \cup {RemoteParams(two, Absent, t) :
                              t \in {yamlType, tomlType, "xml"}},
            failing \in SUBSET ConfigNames, s \in BOOLEAN}
        \cup
        {mk(FileBased, FileParams(names, t), failing, FALSE) :
            names \in NameLists(MaxNames), t \in {jsonType, yamlType, tomlType},
            failing \in SUBSET SourceNames}
        \cup
        {mk(FileBased, p, failing, FALSE) :
            p \in FileDefective, failing \in SUBSET ConfigNames}
        \cup
        {mk(sel, p, failing, FALSE) :
            sel \in Selectors \ {FileBased, AWSAppConfig},
            p \in {FileParams(two, jsonType),
                   RemoteParams(two, Absent, jsonType), <<>>},
            failing \in SUBSET ConfigNames}

\* The constructor specification: New called once.
InitNew ==
    /\ call \in NewCalls
    /\ provider = ProviderOf(call.provider)
    /\ ret = Pending
    /\ configs = <<>>
    /\ MachineIdle

\* New, and with it the watchConfig goroutines fetchAndWatchConfigs starts.
Construct ==
    LET r == New(call.provider, call.params, call.failing, call.sessionFails)
        watched == IF provider = "remote" THEN DOMAIN r.configs ELSE {}
    IN  /\ ret = Pending
        /\ ret' = [client |-> r.client, err |-> r.err, loads |-> r.loads,
                   checkInterval |-> r.checkInterval, panic |-> r.panic]
        /\ configs' = r.configs
        /\ pc' = [n \in watched |-> "select"]
        /\ fetched' = [n \in watched |-> NoResult]
        /\ mu' = [n \in watched |-> MuFree]
        /\ swaps' = [n \in watched |-> <<>>]
        /\ heap' = [a \in {<<n, 0>> : n \in watched} |-> r.configs[a[1]].data]
        /\ refs' = [n \in watched |-> <<n, 0>>]
        /\ UNCHANGED <<provider, call, listeners, signal, calls, ticks,
                       reader, fileCalls, build,
                   threads, locks, table>>

NextNew == Construct

SpecNew == InitNew /\ [][NextNew]_vars

----------------------------------------------------------------------------
(* The HTTP client's request configuration and its retrier.  A Go int is   *)
(* [int |-> n]; a time.Duration is counted in milliseconds; a nil pointer  *)
(* is Null.                                                                *)

GoInt(n) == [int |-> n]
IsGoInt(v) == "int" \in DOMAIN v

\* getConfigOptionString, getConfigOptionInt, getConfigOptionFloat and
\* getConfigOptionMap: the value under key when it has the type, and else
\* the zero value and an error.
getConfigOptionString(options, key) ==
    IF key \in DOMAIN options
    THEN IF IsStr(options[key])
         THEN [val |-> options[key].s, err |-> NoErr]
         ELSE [val |-> "", err |-> "invalid " \o key \o ", must be a string"]
    ELSE [val |-> "", err |-> "missing " \o key]

getConfigOptionInt(options, key) ==
    IF key \in DOMAIN options
    THEN IF IsGoInt(options[key])
         THEN [val |-> options[key].int, err |-> NoErr]
         ELSE [val |-> 0, err |-> "invalid " \o key \o ", must be a int"]
    ELSE [val |-> 0, err |-> "missing " \o key]

getConfigOptionFloat(options, key) ==
    IF key \in DOMAIN options
    THEN IF IsNum(options[key])
         THEN [val |-> options[key].f, err |-> NoErr]
         ELSE [val |-> 0, err |-> "invalid " \o key \o ", must be a float64"]
    ELSE [val |-> 0, err |-> "missing " \o key]

getConfigOptionMap(options, key) ==
    IF key \in DOMAIN options
    THEN IF IsMap(options[key])
         THEN [val |-> options[key].m, err |-> NoErr]
         ELSE [val |-> <<>>,
               err |-> "invalid " \o key \o ", must be a map[string]interface{}"]
    ELSE [val |-> <<>>, err |-> "missing " \o key]

\* NewConstantBackoff: the fields that are not given as an int stay zero.
NewConstantBackoff(configMap) ==
    [interval |-> getConfigOptionInt(configMap, "intervalinmillis").val,
     maximumJitterInterval |->
         getConfigOptionInt(configMap, "maxjitterintervalinmillis").val]

\* NewExponentialBackoff.
NewExponentialBackoff(configMap) ==
    [exponentFactor |-> getConfigOptionFloat(configMap, "exponentfactor").val,
     initialTimeout |->
         getConfigOptionInt(configMap, "initialtimeoutinmillis").val,
     maxTimeout |-> getConfigOptionInt(configMap, "maxtimeoutinmillis").val,
     maximumJitterInterval |->
         getConfigOptionInt(configMap, "maxjitterintervalinmillis").val]

\* NewBackoffPolicy: each kind is set when the map holds a map for it.
NewBackoffPolicy(configMap) ==
    LET c == getConfigOptionMap(configMap, "constantbackoff")
        e == getConfigOptionMap(configMap, "exponentialbackoff")
    IN  [constantBackoff |->
             IF c.err = NoErr THEN NewConstantBackoff(c.val) ELSE Null,
         exponentialBackoff |->
             IF e.err = NoErr THEN NewExponentialBackoff(e.val) ELSE Null]

\* NewRequestConfig, up to the backoff policy (the hystrix configuration,
\* read after it, has no part in the retrier): without a method, a url or a
\* timeout nothing after it is read.
NewRequestConfig(configMap) ==
    LET rc == [method |-> "", url |-> "", timeout |-> 0, retryCount |-> 0,
               backoffPolicy |-> Null]
        method == getConfigOptionString(configMap, "method")
        url == getConfigOptionString(configMap, "url")
        timeout == getConfigOptionInt(configMap, "timeoutinmillis")
        retryCount == getConfigOptionInt(configMap, "retrycount")
        policy == getConfigOptionMap(configMap, "backoffpolicy")
    IN  IF method.err # NoErr THEN rc
        ELSE IF url.err # NoErr THEN [rc EXCEPT !.method = method.val]
        ELSE IF timeout.err # NoErr
        THEN [rc EXCEPT !.method = method.val, !.url = url.val]
        ELSE [method |-> method.val, url |-> url.val, timeout |-> timeout.val,
              retryCount |-> IF retryCount.err # NoErr THEN 1
                             ELSE retryCount.val,
              backoffPolicy |-> IF policy.err = NoErr
                                THEN NewBackoffPolicy(policy.val) ELSE Null]

\* RequestConfig.SetBackoffPolicy.
SetBackoffPolicy(rc, backoffPolicy) ==
    [rc EXCEPT !.backoffPolicy = backoffPolicy]

\* The retriers of heimdall: NewRetrier of a constant or of an exponential
\* backoff, and NewNoRetrier.
ConstantRetrier(cb) ==
    [retrier |-> "constant", interval |-> cb.interval,
     maximumJitterInterval |-> cb.maximumJitterInterval]
ExponentialRetrier(eb) ==
    [retrier |-> "exponential", initialTimeout |-> eb.initialTimeout,
     maxTimeout |-> eb.maxTimeout, exponentFactor |-> eb.exponentFactor,
     maximumJitterInterval |-> eb.maximumJitterInterval]
NoRetrier == [retrier |-> "none"]

\* getRetrier with the exponential backoff preferred.
getRetrierExponentialFirst(requestConfig) ==
    LET bp == requestConfig.backoffPolicy
    IN  IF bp # Null /\ bp.exponentialBackoff # Null
        THEN ExponentialRetrier(bp.exponentialBackoff)
        ELSE IF bp # Null /\ bp.constantBackoff # Null
        THEN ConstantRetrier(bp.constantBackoff)
        ELSE NoRetrier

getRetrier(requestConfig) ==
    LET bp == requestConfig.backoffPolicy
    IN  IF bp # Null /\ bp.constantBackoff # Null
        THEN ConstantRetrier(bp.constantBackoff)
        ELSE IF bp # Null /\ bp.exponentialBackoff # Null
        THEN ExponentialRetrier(bp.exponentialBackoff)
        ELSE NoRetrier

\* The maps given for "constantbackoff": the one of the README, one with the
\* interval as a float64, and ones with a field left out.
ConstantBackoffMaps ==
    {MkMap([k \in {"intervalinmillis", "maxjitterintervalinmillis"} |->
               IF k = "intervalinmillis" THEN i ELSE j]) :
        i \in {GoInt(2), Num(20), Absent}, j \in {GoInt(5), Absent}}

\* The maps given for "exponentialbackoff".
ExponentialBackoffMaps ==
    {MkMap([k \in {"initialtimeoutinmillis", "maxtimeoutinmillis",
                   "exponentfactor", "maxjitterintervalinmillis"} |->
               CASE k = "initialtimeoutinmillis" -> i
                 [] k = "maxtimeoutinmillis" -> GoInt(10)
                 [] k = "exponentfactor" -> f
                 [] k = "maxjitterintervalinmillis" -> j]) :
        i \in {GoInt(2), Absent}, f \in {Num(20), Absent},
        j \in {GoInt(2), Absent}}

\* The values given for "backoffpolicy": none, a string, and the maps with
\* each kind left out, given as a string, or given as a map.
BackoffPolicyOptions ==
    {Absent, Str("constant")} \cup
    {MkMap([k \in {"constantbackoff", "exponentialbackoff"} |->
               IF k = "constantbackoff" THEN c ELSE e]) :
        c \in ConstantBackoffMaps \cup {Absent, Str("x")},
        e \in ExponentialBackoffMaps \cup {Absent, Str("x")}}

\* The config maps: the one of the README with the "backoffpolicy" varied,
\* with and without its "url" and its "retrycount".
RequestConfigMaps ==
    {MkMap([k \in {"method", "url", "timeoutinmillis", "retrycount",
                   "backoffpolicy"} |->
               CASE k = "method" -> Str("GET")
                 [] k = "url" -> u
                 [] k = "timeoutinmillis" -> GoInt(5000)
                 [] k = "retrycount" -> n
                 [] k = "backoffpolicy" -> b]).m :
        u \in {Str("https://www.google.co.in"), Absent},
        n \in {GoInt(3), Absent},
        b \in BackoffPolicyOptions}

\* The backoff policies set with the setters: none, and those with each
\* kind set or not.
SetPolicies ==
    {Null} \cup
    {[constantBackoff |-> c, exponentialBackoff |-> e] :
        c \in {Null, NewConstantBackoff(<<>>),
               [interval |-> 2, maximumJitterInterval |-> 5]},
        e \in {Null, NewExponentialBackoff(<<>>)}}

\* The retrier specification: a request configuration made from a config
\* map, or given its backoff policy with the setters, and the retrier
\* buildHTTPClient gets for it.
InitRetry ==
    /\ provider = "none"
    /\ configs = <<>>
    /\ call = [op |-> "none"]
    /\ ret = Pending
    /\ MachineIdle

ConfigureFromMap ==
    \E configMap \in RequestConfigMaps :
        /\ ret = Pending
        /\ call' = [op |-> "getRetrier", configMap |-> configMap,
                    requestConfig |-> NewRequestConfig(configMap)]
        /\ ret' = getRetrier(NewRequestConfig(configMap))
        /\ UNCHANGED <<provider, configs, machine>>

ConfigureWithSetters ==
    \E backoffPolicy \in SetPolicies :
        LET rc == SetBackoffPolicy(NewRequestConfig(<<>>), backoffPolicy)
        IN  /\ ret = Pending
            /\ call' = [op |-> "getRetrier", configMap |-> <<>>,
                        requestConfig |-> rc]
            /\ ret' = getRetrier(rc)
            /\ UNCHANGED <<provider, configs, machine>>

NextRetry ==
    \/ ConfigureFromMap
    \/ ConfigureWithSetters

SpecRetry == InitRetry /\ [][NextRetry]_vars

----------------------------------------------------------------------------
(* C1 *)

\* The prefix of i segments is a top-level key of t under which the other
\* segments resolve.
PrefixResolves(t, s, i) ==
    /\ JoinPrefix(s, i) \in DOMAIN t.m
    /\ get(Rest(s, i), "", t.m[JoinPrefix(s, i)]) # Null

\* A Get has returned for a non-empty key that is, whole, a top-level key of
\* the tree with a value other than nil.
LiteralCase ==
    /\ call.op = "Get"
    /\ call.key # <<>>
    /\ String(call.key) \in DOMAIN configs["app"].data.m
    /\ configs["app"].data.m[String(call.key)] # Null

LiteralValue == configs["app"].data.m[String(call.key)]

\* C1 as stated: a top-level literal key equal to the whole dotted key wins
\* over nested maps with the same prefix.
C1_LiteralKeyWins == LiteralCase => ret.val = LiteralValue

\* C1 amended: the key resolves (never not-found); it resolves to the
\* literal key's value when no proper prefix of its segments is a top-level
\* key under which the remaining segments resolve, and otherwise to what the
\* shortest such prefix leads to; the fixture resolves to 2.
C1_NestedWinsOverLiteral ==
    LiteralCase =>
        LET t == configs["app"].data
            s == Split(call.key)
            shorter == {i \in 1..(Len(s) - 1) : PrefixResolves(t, s, i)}
        IN  /\ ret.err = NoErr
            /\ shorter = {} => ret.val = LiteralValue
            /\ shorter # {} =>
                  \E i \in shorter :
                      /\ \A j \in shorter : i <= j
                      /\ ret.val = get(Rest(s, i), "", t.m[JoinPrefix(s, i)])
            /\ (t = ExampleTree /\ call.key = ExampleKey) => ret.val = Num(20)

\* The fixture has been resolved: the nested 2 came back, not the literal 1.
C1_Witness ==
    /\ LiteralCase
    /\ configs["app"].data = ExampleTree
    /\ call.key = ExampleKey
    /\ ret.val = Num(20)
    /\ LiteralValue = Num(10)

----------------------------------------------------------------------------
(* C2 to C6: the typed accessors, under SpecAcc *)

RECURSIVE Walk(_, _)
\* What the tree v holds at the end of the path segs, one map per segment;
\* Absent when the path leaves the tree.
Walk(v, segs) ==
    IF segs = <<>> THEN v
    ELSE IF IsMap(v) /\ Head(segs) \in DOMAIN v.m
         THEN Walk(v.m[Head(segs)], Tail(segs))
         ELSE Absent

\* What the source of the call holds under the key of the call (the whole
\* tree under the empty key).
Stored ==
    IF call.key = <<>> THEN configs[call.config].data
    ELSE Walk(configs[call.config].data, Split(call.key))

Called == call.op # "none"
OnHeldSource == Called /\ call.config \in DOMAIN configs

NonDefaultOps ==
    {"Get", "GetScalar", "GetSlice", "GetTypedSlice", "GetMap", "GetTypedMap"}

CollectionDOps == {"GetSliceD", "GetTypedSliceD", "GetMapD", "GetTypedMapD"}

\* What the accessor without default returns for the arguments of the call
\* of an accessor with default.
NonDefaultResult ==
    CASE call.op = "GetSliceD" ->
            ClientGetSlice(provider, configs, call.config, call.key)
      [] call.op = "GetTypedSliceD" ->
            ClientGetTypedSlice(provider, call.T, configs, call.config, call.key)
      [] call.op = "GetMapD" ->
            ClientGetMap(provider, configs, call.config, call.key)
      [] call.op = "GetTypedMapD" ->
            ClientGetTypedMap(provider, call.T, configs, call.config, call.key)

\* C2: on either provider GetIntD, GetFloatD, GetStringD and GetBoolD return
\* the default when the key is absent, and the stored value (coerced) when the
\* key holds a value of the type, the zero value included.
C2_ScalarDefaultOnlyWhenAbsent ==
    (OnHeldSource /\ call.op = "GetScalarD") =>
        /\ Stored = Absent => ret.val = call.d
        /\ (Stored # Absent /\ Asserts(call.T, Stored)) =>
              ret.val = Conv(call.T, Stored)

\* C3: on either provider every slice and map accessor with default returns
\* the default when the accessor without default fails or returns an empty
\* collection, and what that accessor returns otherwise.
C3_CollectionDefaultWhenEmpty ==
    (Called /\ call.op \in CollectionDOps) =>
        ret.val = IF NonDefaultResult.err # NoErr
                        \/ LenOf(NonDefaultResult.val) = 0
                  THEN call.d
                  ELSE NonDefaultResult.val

\* C4: on either provider an accessor without default, called on a held
\* source with a key under which the source holds nothing, returns the
\* not-found error.
C4_AbsentKeyIsNotFound ==
    (OnHeldSource /\ call.op \in NonDefaultOps /\ Stored = Absent) =>
        ret.err = ErrAppConfigNotFound

\* The stored value is a slice with an element, or a map with an entry, that
\* is not of type T.
HasForeignElement(T, v) ==
    \/ IsSlice(v) /\ \E i \in 1..Len(v.l) : ~Asserts(T, v.l[i])
    \/ IsMap(v) /\ \E j \in DOMAIN v.m : ~Asserts(T, v.m[j])

\* C5, on the remote client: an accessor of T fails with the invalid-type
\* error when the stored value is not a T, and a typed slice or map getter
\* fails with it when an element of the collection is of another type.
C5_TypeMismatchIsAnError ==
    (provider = "remote" /\ OnHeldSource /\ Stored \notin {Absent, Null}) =>
        /\ (call.op = "GetScalar" /\ ~Asserts(call.T, Stored)) =>
              ret.err = ErrAppConfigInvalidType
        /\ (call.op \in {"GetSlice", "GetTypedSlice"} /\ ~IsSlice(Stored)) =>
              ret.err = ErrAppConfigInvalidType
        /\ (call.op \in {"GetMap", "GetTypedMap"} /\ ~IsMap(Stored)) =>
              ret.err = ErrAppConfigInvalidType
        /\ (call.op \in {"GetTypedSlice", "GetTypedMap"}
                /\ HasForeignElement(call.T, Stored)) =>
              ret.err = ErrAppConfigInvalidType

\* C6: on either provider, for a source the client does not hold, every
\* accessor without default returns the error "config not added", whatever
\* the key, and every accessor with default returns the default.
C6_UnknownSource ==
    (Called /\ call.config \notin DOMAIN configs) =>
        IF call.op \in NonDefaultOps
        THEN ret.err = IF provider = "remote"
                       THEN ErrorAppConfigNotAdded
                       ELSE ErrorFileBasedConfigNotAdded
        ELSE ret = [val |-> call.d]

\* GetInt and its like have been called on the file-based client for the
\* unknown source and have returned the error.
C6_Witness ==
    /\ provider = "file"
    /\ call.op = "GetScalar"
    /\ call.config = "other"
    /\ call.key # <<>>
    /\ ret.err = "config not added"

----------------------------------------------------------------------------
(* C7 to C10: the listener registry and the poll loop, under Spec *)

\* A step that is a returning call of the named registry method (no step of
\* a watcher leaves both pc and ticks as they are).
RegistryStep(op) ==
    /\ call'.op = op
    /\ pc' = pc
    /\ ticks' = ticks

Entry(ls, n) ==
    IF n \in DOMAIN ls THEN ls[n] ELSE "none"

\* C7: on either provider AddChangeListener, called with a name that is not
\* one of the names the client was constructed with, returns the
\* "config not added" error and leaves the listener registry as it was.
C7_AddUnknownSourceFails ==
    [][(RegistryStep("AddChangeListener") /\ call'.config \notin ConfigNames)
          => (ret'.err = ErrorAppConfigNotAdded /\ listeners' = listeners)]_vars

\* C8: on either provider RemoveChangeListener returns the
\* "config not added" error for a name the client was not constructed with,
\* returns no error for a name it was constructed with (a listener being
\* registered or not), and removing a second time changes nothing more.
C8_RemoveFailsOnlyForUnknownSource ==
    [][RegistryStep("RemoveChangeListener")
          => /\ call'.config \notin ConfigNames
                   => ret'.err = ErrorAppConfigNotAdded
             /\ call'.config \in ConfigNames => ret'.err = NoErr
             /\ ClientRemoveChangeListener(provider, configs, listeners',
                                           call'.config).listeners
                   = listeners']_vars

\* The registry as the last registry call left it.
RegistryAsLastCallLeftIt ==
    /\ \A n \in DOMAIN listeners : listeners[n] \in Callbacks
    /\ (call.op = "AddChangeListener" /\ ret.err = NoErr)
          => Entry(listeners, call.config) = call.listener
    /\ (call.op = "RemoveChangeListener" /\ ret.err = NoErr)
          => Entry(listeners, call.config) = "none"

\* The registry changes only in a client call, and a registry call on one
\* name leaves the entry of every other name alone.
OtherNamesUnaffected ==
    listeners' # listeners
       => \/ call'.op = "Close"
          \/ /\ \/ RegistryStep("AddChangeListener")
                \/ RegistryStep("RemoveChangeListener")
             /\ \A n \in SourceNames \ {call'.config} :
                   Entry(listeners', n) = Entry(listeners, n)

\* The remote watcher, coming to announce a swap of source n, invokes the
\* callback the registry holds for n at that moment and no other: none if
\* it holds none.
InvokesRegisteredCallbackOnly ==
    \A n \in DOMAIN pc :
       (pc[n] = "notify" /\ pc'[n] # "notify")
          => IF n \in DOMAIN listeners
             THEN /\ Len(calls') = Len(calls) + 1
                  /\ SubSeq(calls', 1, Len(calls)) = calls
                  /\ calls'[Len(calls')].name = n
                  /\ calls'[Len(calls')].listener = listeners[n]
             ELSE calls' = calls

\* C9: every source name has at most one callback; a successful
\* AddChangeListener leaves the name with the callback just given (in place
\* of an earlier one), a successful RemoveChangeListener leaves it with
\* none, a registry call on one name leaves the other names' callbacks
\* alone, and the swap of a source invokes the callback then registered for
\* it and nothing else.
C9_OneCallbackPerName ==
    /\ []RegistryAsLastCallLeftIt
    /\ [][OtherNamesUnaffected]_vars
    /\ [][InvokesRegisteredCallbackOnly]_vars

\* cb1 was invoked for a swap of "app", cb2 (registered in its place) for
\* the next swap, while "db" kept a callback of its own.
C9_Witness ==
    /\ Len(calls) = 2
    /\ calls[1].name = "app" /\ calls[1].listener = "cb1"
    /\ calls[2].name = "app" /\ calls[2].listener = "cb2"
    /\ Entry(listeners, "db") = "cb1"

\* Every invocation belongs to one successful swap of its source, got that
\* swap's version and data, a version other than the one held before the
\* swap, and comes after the invocations for earlier swaps of the source.
InvocationsFollowSwaps ==
    \A i \in 1..Len(calls) :
       LET e == calls[i]
       IN  /\ e.swap \in 1..Len(swaps[e.name])
           /\ e.version = swaps[e.name][e.swap].new
           /\ e.version # swaps[e.name][e.swap].old
           /\ e.data = swaps[e.name][e.swap].data
           /\ \A j \in 1..(i - 1) :
                 calls[j].name = e.name => calls[j].swap < e.swap

\* A watcher begins a swap only with a fetched snapshot of another version
\* that parses (not on an unchanged version, a failed fetch or a failed
\* parse), it comes to announce only by completing that swap, the snapshot
\* of a source changes only so, and a listener runs only for such an
\* announcement: once, if one is registered then.
InvokedOncePerSwap ==
    /\ \A n \in DOMAIN pc :
          /\ (pc'[n] = "assign" /\ pc[n] # "assign")
                => /\ pc[n] = "parse"
                   /\ fetched[n].version # configs[n].version
                   /\ parser(fetched[n].content).err = NoErr
                   /\ configs'[n].version = fetched[n].version
                   /\ Len(swaps'[n]) = Len(swaps[n]) + 1
          /\ (pc'[n] = "notify" /\ pc[n] # "notify")
                => /\ pc[n] = "assign"
                   /\ configs'[n].data = swaps[n][Len(swaps[n])].data
          /\ configs'[n] # configs[n]
                => (pc[n] # pc'[n] /\ pc'[n] \in {"assign", "notify"})
          /\ (pc[n] = "notify" /\ pc'[n] # "notify"
                /\ n \in DOMAIN listeners)
                => /\ Len(calls') = Len(calls) + 1
                   /\ calls'[Len(calls')].swap = Len(swaps[n])
                   /\ pc'[n] = "calling"
    /\ calls' # calls
          => \E n \in DOMAIN pc :
                /\ pc[n] = "notify"
                /\ pc'[n] = "calling"
                /\ n \in DOMAIN listeners

\* C10: in the remote client a listener registered for a source is invoked
\* once for each successful swap of the source (at the moment the watcher
\* announces it) and at no other moment: not when the version fetched is the
\* one held, not when the fetch or the parse fails; the version it receives
\* is not the version held before the swap, and the invocations for one
\* source come in the order of its swaps.
C10_ListenerOncePerSwap ==
    /\ []InvocationsFollowSwaps
    /\ [][InvokedOncePerSwap]_vars

\* Two swaps of "app" (to version 2 and back to version 1), each announced
\* to the listener, in that order.
C10_Witness ==
    /\ provider = "remote"
    /\ "app" \in DOMAIN swaps
    /\ Len(swaps["app"]) = 2
    /\ Len(calls) = 2
    /\ calls[1].swap = 1 /\ calls[1].version = "2"
    /\ calls[2].swap = 2 /\ calls[2].version = "1"

----------------------------------------------------------------------------
(* C11 to C20: readers, reloads, failures and teardown *)

\* The snapshot a source holds once its swaps so far are complete.
CurrentSnapshot(n) ==
    IF Len(swaps[n]) = 0
    THEN [version |-> "1", data |-> TreeA]
    ELSE [version |-> swaps[n][Len(swaps[n])].new,
          data |-> swaps[n][Len(swaps[n])].data]

\* C11: in the remote client, while the listener for a swap of a source
\* runs, the source holds the new snapshot and a Get on it by another
\* thread can take its read lock and go on, the listener not having
\* returned.
C11_ReadersSeeSwapDuringListener ==
    \A n \in DOMAIN pc :
       pc[n] = "calling"
          => /\ configs[n] = CurrentSnapshot(n)
             /\ reader = "none" => ENABLED GetRLock(n)

\* C12: in the file-based client, when the file of a configured source is
\* read again and its tree changes while a callback is registered under
\* the source's name, that callback is invoked once, with the new tree of
\* the source among its arguments.
C12_FileListenerGetsNewTree ==
    [][\A n \in ConfigNames :
          (/\ provider = "file"
           /\ n \in DOMAIN configs
           /\ n \in DOMAIN configs'
           /\ configs'[n] # configs[n]
           /\ n \in DOMAIN listeners)
             => /\ Len(fileCalls') = Len(fileCalls) + 1
                /\ fileCalls'[Len(fileCalls')].listener = listeners[n]
                /\ fileCalls'[Len(fileCalls')].args[2] = configs'[n].data]_vars

\* A watcher of source n ends a cycle that fetched another version than the
\* one held, with content that does not parse.
FailedParseCycle(n) ==
    /\ pc[n] = "parse"
    /\ pc'[n] # "parse"
    /\ fetched[n].version # configs[n].version
    /\ fetched[n].content \notin ValidDocuments

\* C13: in the remote poll loop a cycle that finds another version whose
\* content does not parse leaves the version and the tree of every source
\* as they were, invokes no listener, and goes back to waiting: Get returns
\* after it what it returned before it.
C13_FailedParseChangesNothing ==
    [][\A n \in DOMAIN pc :
          FailedParseCycle(n)
             => /\ configs' = configs
                /\ calls' = calls
                /\ pc'[n] = "select"
                /\ \A k \in {<<>>, ReaderKey} :
                      AppGet(configs', n, k) = AppGet(configs, n, k)]_vars

\* The watcher of "app", a listener being registered, has fetched version 2
\* with a document that does not parse, and is about to parse it.
C13_Witness ==
    /\ provider = "remote"
    /\ "app" \in DOMAIN pc
    /\ pc["app"] = "parse"
    /\ fetched["app"] = [version |-> "2", content |-> "bad"]
    /\ configs["app"].version = "1"
    /\ "app" \in DOMAIN listeners

\* C14: in the remote client the poll loop of a source ends only by taking
\* the value Close sent on the signal channel: a failed fetch and a failed
\* parse leave it running.
C14_FailuresNeverEndThePollLoop ==
    [][\A n \in DOMAIN pc :
          (pc'[n] = "exited" /\ pc[n] # "exited") => signal' < signal]_vars

\* C15: in the remote client every configured source is either held (it
\* loaded) or has a poll loop running that will try it again.
C15_FailedSourceIsRetried ==
    provider = "remote"
       => \A n \in ConfigNames :
             \/ n \in DOMAIN configs
             \/ n \in DOMAIN pc /\ pc[n] # "exited"

\* C17: in the remote client, when Close returns (its value is on the
\* signal channel) every poll loop has exited, and after Close has returned
\* none fetches, swaps or invokes a listener.
C17_CloseStopsAllPollLoops ==
    [][/\ (provider = "remote" /\ signal' > signal)
             => \A n \in DOMAIN pc : pc'[n] = "exited"
       /\ (provider = "remote" /\ call.op = "Close")
             => (ticks' = ticks /\ configs' = configs /\ calls' = calls)]_vars

\* C18: on either provider Close returns no error, and after a Close a
\* further Close can return: the value the first one left on the signal
\* channel has a poll loop left to take it.
C18_SecondCloseReturns ==
    /\ call.op = "Close" => ret.err = NoErr
    /\ signal = 1 => \E n \in DOMAIN pc : pc[n] # "exited"

\* C16: the file-based constructor, when one of the configured sources does
\* not load, returns an error and no client; when it returns a client, every
\* configured source is held.
C16_FileConstructionAllOrNothing ==
    (provider = "file" /\ call.op = "New" /\ ret # Pending)
       => LET given == IF "configNames" \in DOMAIN call.params
                             /\ IsStrs(call.params["configNames"])
                          THEN call.params["configNames"].strs ELSE <<>>
              names == {given[i] : i \in DOMAIN given}
          IN  /\ names \cap call.failing # {}
                    => (ret.err # NoErr /\ ~ret.client /\ configs = <<>>)
              /\ ret.client => (ret.err = NoErr /\ names \subseteq DOMAIN configs)
              /\ ret.client \/ ret.err # NoErr

\* "app" loads and "db" after it does not: there is an error and no client.
C16_Witness ==
    /\ provider = "file"
    /\ call.op = "New"
    /\ call.params = FileParams(<<"app", "db">>, jsonType)
    /\ call.failing = {"db"}
    /\ ret # Pending
    /\ ~ret.client

\* C19: in the remote client, whenever a thread inside Get holds the read
\* lock of a source, the version and the tree the source holds are those of
\* one snapshot: the one loaded at construction or the one of the last
\* swap, never the version of one and the tree of another.
C19_ReadersSeeWholeSnapshot ==
    \A n \in DOMAIN pc :
       reader = n
          => /\ configs[n] = CurrentSnapshot(n)
             /\ AppGet(configs, n, <<>>) = Ret(CurrentSnapshot(n).data, NoErr)

\* A thread is inside Get on "app" after one swap, while the watcher has
\* fetched the next snapshot and waits for the lock.
C19_Witness ==
    /\ reader = "app"
    /\ Len(swaps["app"]) = 1
    /\ pc["app"] = "fetched"
    /\ fetched["app"] = [version |-> "1", content |-> "docB"]

\* The steps of a watcher between its fetch and the return of the listener.
Refreshing == {"fetched", "parse", "assign", "notify", "calling"}

----------------------------------------------------------------------------
(* C21 to C30 *)

\* C21: in the remote client a thread calling Get on a source can take the
\* read lock while the watcher of that source parses what it fetched, and
\* the watcher holds the write lock of a source only while it assigns the
\* new snapshot.
C21_ReadersNeverWaitForParse ==
    \A n \in DOMAIN pc :
       /\ (pc[n] = "parse" /\ reader = "none") => ENABLED GetRLock(n)
       /\ mu[n].writer => pc[n] = "assign"

\* The versions a source has held up to its i-th swap: the one loaded at
\* construction and those of the swaps before the i-th.
HeldBefore(n, i) ==
    {swaps[n][1].old} \cup {swaps[n][j].new : j \in 1..(i - 1)}

\* C22: in the remote client no swap installs a version the source has
\* held before, whatever versions the store reports.
C22_VersionsNeverReturn ==
    \A n \in DOMAIN swaps :
       \A i \in 1..Len(swaps[n]) : swaps[n][i].new \notin HeldBefore(n, i)

\* The content the k-th tree of the source n was made with: the tree loaded
\* at construction, or what the parser made for the k-th swap.
MadeAs(n, k) == IF k = 0 THEN TreeA ELSE swaps[n][k].data

\* The number of trees attached to the source n after the first: its swaps,
\* less the one whose tree is parsed but not assigned yet.
Attached(n) ==
    IF pc[n] = "assign" THEN Len(swaps[n]) - 1 ELSE Len(swaps[n])

\* C23: in the remote client no operation changes a tree once a source has
\* pointed at it: a swap points the source at a tree newly made by the
\* parser, and every tree attached earlier is still there with the content
\* it was made with, through later swaps, failed cycles and accessor calls;
\* so is every tree a listener was handed.
C23_AttachedTreesNeverMutated ==
    /\ \A n \in DOMAIN refs :
          /\ refs[n] = <<n, Attached(n)>>
          /\ configs[n].data = heap[refs[n]]
          /\ \A k \in 0..Attached(n) :
                /\ <<n, k>> \in DOMAIN heap
                /\ heap[<<n, k>>] = MadeAs(n, k)
    /\ \A i \in 1..Len(calls) :
          /\ <<calls[i].name, calls[i].swap>> \in DOMAIN heap
          /\ heap[<<calls[i].name, calls[i].swap>>] = calls[i].data

\* "app" has been swapped twice, the first swap announced to a listener:
\* the tree loaded at construction and the tree of the first swap are as
\* they were.
C23_Witness ==
    /\ "app" \in DOMAIN refs
    /\ refs["app"] = <<"app", 2>>
    /\ heap[<<"app", 0>>] = TreeA
    /\ heap[<<"app", 1>>] = TreeB
    /\ Len(calls) > 0
    /\ calls[1].swap = 1

RECURSIVE Reachable(_, _)
\* The values some grouping of the consecutive segments segs into literal
\* map keys, each group joined by dots, leads to from the node v: the first
\* group is a key of the mapping v, and the other groups lead on from the
\* value under that key.
Reachable(v, segs) ==
    IF segs = <<>> THEN {v}
    ELSE IF IsMap(v)
         THEN UNION {IF JoinPrefix(segs, i) \in DOMAIN v.m
                     THEN Reachable(v.m[JoinPrefix(segs, i)], Rest(segs, i))
                     ELSE {} : i \in 1..Len(segs)}
         ELSE {}

\* The values other than nil that the groupings of the key of the call lead
\* to in the tree of the source "app".
Groupings == Reachable(configs["app"].data, Split(call.key)) \ {Null}

\* C24: for every tree and every non-empty dotted key, keys with empty
\* segments such as "a." included, Get returns a value only if some
\* grouping of the key's consecutive segments into literal map keys walks
\* from the root through mappings to that value, returns not-found when no
\* grouping leads to a value, and finds a value whenever some grouping does,
\* whether the path is stored nested, flat or mixed.
C24_ResolvesByGroupingOnly ==
    (call.op = "Get" /\ call.key # <<>>) =>
        /\ ret.err = NoErr => ret.val \in Groupings
        /\ Groupings = {} => ret = Ret(Null, ErrAppConfigNotFound)
        /\ Groupings # {} => ret.err = NoErr

\* C25: in the remote client Get with the empty key returns the whole tree
\* of the source without error, and Get with a key that leads to a mapping
\* returns that mapping without error: the mapping at the end of the nested
\* path of the key when there is one, and else, when every grouping of the
\* key that leads to a value leads to a mapping, one of those mappings.
C25_WholeTreeAndMappingNodes ==
    call.op = "Get" =>
        LET tree == configs["app"].data
        IN  /\ call.key = <<>> => ret = Ret(tree, NoErr)
            /\ (call.key # <<>> /\ IsMap(Walk(tree, Split(call.key)))) =>
                  ret = Ret(Walk(tree, Split(call.key)), NoErr)
            /\ ( /\ call.key # <<>>
                 /\ Groupings # {}
                 /\ \A v \in Groupings : IsMap(v) ) =>
                  (ret.err = NoErr /\ ret.val \in Groupings)

\* Get("app", "a.a") has returned the mapping {"a": 1} found two levels
\* down in the tree.
C25_Witness ==
    /\ call.op = "Get"
    /\ call.key = <<"a", ".", "a">>
    /\ Walk(configs["app"].data, <<"a", "a">>) = Map([j \in {"a"} |-> Num(10)])
    /\ ret = Ret(Map([j \in {"a"} |-> Num(10)]), NoErr)

\* The options the provider requires as strings.
RequiredStrings(selector) ==
    IF selector = AWSAppConfig
    THEN {"id", "region", "accessKeyId", "secretKey", "app", "env",
          "configType"}
    ELSE {"configsDirectory", "configType"}

\* A required option of the provider is missing from the Params or has the
\* wrong type, or the configType of the file-based provider is none of json,
\* yaml and toml.
Defective(selector, params) ==
    \/ \E k \in RequiredStrings(selector) :
          k \notin DOMAIN params \/ ~IsStr(params[k])
    \/ "configNames" \notin DOMAIN params
    \/ ~IsStrs(params["configNames"])
    \/ /\ selector = FileBased
       /\ params["configType"].s \notin {"json", "yaml", "toml"}

\* C26: the options are validated at construction before anything else is
\* done: when a required option is missing or wrongly typed (remote: id,
\* region, accessKeyId, secretKey, app, env, configType, configNames;
\* file-based: configsDirectory, configNames, configType, which must be
\* json, yaml or toml) the constructor returns an error and no client, has
\* read no source and has started no watcher; and a remote client whose
\* checkInterval was absent or zero holds the interval of one minute, any
\* other the interval given.
C26_OptionsValidatedFirst ==
    (call.op = "New" /\ ret # Pending
        /\ call.provider \in {FileBased, AWSAppConfig}) =>
        /\ Defective(call.provider, call.params) =>
              /\ ~ret.client /\ ret.err # NoErr /\ ~ret.panic
              /\ ret.loads = <<>>
              /\ configs = <<>> /\ pc = <<>>
        /\ (call.provider = AWSAppConfig /\ ret.client) =>
              ret.checkInterval =
                 IF "checkInterval" \in DOMAIN call.params
                    /\ call.params["checkInterval"] # Dur(0)
                 THEN call.params["checkInterval"].dur
                 ELSE 60

\* The remote constructor was given Params without "region", and sources
\* that would all have loaded: it returned "missing region" and no client.
C26_Witness ==
    /\ call.op = "New"
    /\ call.provider = AWSAppConfig
    /\ DOMAIN call.params = RemoteKeys \ {"region", "checkInterval"}
    /\ call.failing = {}
    /\ ~call.sessionFails
    /\ ret # Pending
    /\ ~ret.client
    /\ ret.err = "missing region"
    /\ ret.loads = <<>>

\* C27: for every provider selector other than FileBased and AWSAppConfig,
\* the declared ETCD among them, New returns no client and
\* ErrProviderNotSupported, whatever the Params, and nothing has been read
\* or started: no source is held and no watcher runs.
C27_OtherProvidersNotSupported ==
    (call.op = "New" /\ ret # Pending /\ call.provider \notin {0, 2}) =>
        /\ ~ret.client
        /\ ret.err = "provider not supported"
        /\ ~ret.panic
        /\ ret.loads = <<>>
        /\ configs = <<>> /\ pc = <<>> /\ listeners = <<>>

\* New was called with the ETCD selector and Params the file-based provider
\* accepts, and returned ErrProviderNotSupported.
C27_Witness ==
    /\ call.op = "New"
    /\ call.provider = ETCD
    /\ call.params = FileParams(<<"app", "db">>, jsonType)
    /\ call.failing = {}
    /\ ret # Pending
    /\ ~ret.client
    /\ ret.err = ErrProviderNotSupported

\* r is the number x (in tenths) without its fraction: it has the sign of
\* x, and x lies less than one beyond it, on the side away from zero.
IntegerPart(x, r) ==
    /\ x >= 0 => (r >= 0 /\ r * 10 <= x /\ x < r * 10 + 10)
    /\ x <= 0 => (r <= 0 /\ r * 10 >= x /\ x > r * 10 - 10)

\* C28: the integer accessors truncate toward zero: for every stored number
\* GetInt returns, without error, its integer part with its sign, and
\* GetIntSlice and GetIntMap return the integer part of every element.
C28_IntegersTruncateTowardZero ==
    LET tree == configs["app"].data.m
    IN  /\ call.op = "GetInt" =>
              /\ ret.err = NoErr
              /\ IntegerPart(tree["n"].f, ret.val.i)
        /\ call.op = "GetIntSlice" =>
              /\ ret.err = NoErr
              /\ Len(ret.val.l) = 2
              /\ \A i \in 1..2 : IntegerPart(tree["xs"].l[i].f, ret.val.l[i].i)
        /\ call.op = "GetIntMap" =>
              /\ ret.err = NoErr
              /\ DOMAIN ret.val.m = {"p", "q"}
              /\ \A k \in {"p", "q"} :
                    IntegerPart(tree["m"].m[k].f, ret.val.m[k].i)

\* C29: for every request configuration the retrier is the one of the
\* constant backoff when the backoff policy has a constant backoff, whether
\* or not it has an exponential one too; the one of the exponential backoff
\* when the policy has only that; and the retrier that never retries when
\* there is no backoff policy or the policy has neither.  A config map with
\* its method, url and timeout that gives maps for both kinds gets the
\* constant one.
C29_ConstantBackoffPreferred ==
    call.op = "getRetrier" =>
        LET bp == call.requestConfig.backoffPolicy
            neither == bp = Null \/ ( /\ bp.constantBackoff = Null
                                      /\ bp.exponentialBackoff = Null )
            cm == call.configMap
        IN  /\ (bp # Null /\ bp.constantBackoff # Null) =>
                  /\ ret.retrier = "constant"
                  /\ ret.interval = bp.constantBackoff.interval
                  /\ ret.maximumJitterInterval =
                        bp.constantBackoff.maximumJitterInterval
            /\ ( /\ bp # Null
                 /\ bp.constantBackoff = Null
                 /\ bp.exponentialBackoff # Null ) =>
                  /\ ret.retrier = "exponential"
                  /\ ret.initialTimeout = bp.exponentialBackoff.initialTimeout
                  /\ ret.maxTimeout = bp.exponentialBackoff.maxTimeout
                  /\ ret.exponentFactor = bp.exponentialBackoff.exponentFactor
            /\ neither => ret = [retrier |-> "none"]
            /\ ( /\ {"method", "url", "timeoutinmillis", "backoffpolicy"}
                       \subseteq DOMAIN cm
                 /\ IsMap(cm["backoffpolicy"])
                 /\ {"constantbackoff", "exponentialbackoff"}
                       \subseteq DOMAIN cm["backoffpolicy"].m
                 /\ IsMap(cm["backoffpolicy"].m["constantbackoff"])
                 /\ IsMap(cm["backoffpolicy"].m["exponentialbackoff"]) ) =>
                  ret.retrier = "constant"

\* The config map of the README, with both kinds of backoff: the retrier
\* is the constant one, of 2 and 5 milliseconds.
C29_Witness ==
    /\ call.op = "getRetrier"
    /\ "backoffpolicy" \in DOMAIN call.configMap
    /\ IsMap(call.configMap["backoffpolicy"])
    /\ call.requestConfig.backoffPolicy # Null
    /\ call.requestConfig.backoffPolicy.constantBackoff =
          [interval |-> 2, maximumJitterInterval |-> 5]
    /\ call.requestConfig.backoffPolicy.exponentialBackoff # Null
    /\ ret = [retrier |-> "constant", interval |-> 2,
              maximumJitterInterval |-> 5]

\* The file-based client has been closed: only Close leaves it without a
\* source, since its constructor returns it with every source loaded.
FileClosed == provider = "file" /\ configs = <<>>

\* C30: once the file-based Close has returned, the file watches started at
\* construction are stopped: no later change of a file is processed, and no
\* listener is invoked, not even one added after Close.
C30_FileCloseStopsWatches ==
    [][FileClosed => (ticks' = ticks /\ fileCalls' = fileCalls)]_vars

----------------------------------------------------------------------------
(* The lock-level specification: the goroutines of a client and the        *)
(* sync.RWMutex values they meet.  A call of Lock or RLock is a position   *)
(* of its own, so that a goroutine that waits is seen waiting.             *)

\* The arrivals in a run: ticker firings, file events and calls of the
\* client.
MaxArrivals == 3

\* The goroutines that call the client.
Callers == {"g1", "g2"}

\* What a registered function does: return, or call back into the client
\* that called it.
PlainListeners == {"plain"}

ListenerKinds == {"plain", "get", "add", "remove"}

\* The mutex of the client (a.mu, f.mu); the mutex of a remote source is
\* named by the source.
ClientMu == "mu"

LockNames == {ClientMu} \cup ConfigNames

NoGoroutine == "none"

Unlocked == [writer |-> NoGoroutine, readers |-> {}]

AtRest(t) == [at |-> IF t \in Callers THEN "idle" ELSE "select",
              cfg |-> IF t \in Callers THEN "none" ELSE t,
              op |-> "none", arg |-> "none", inCallback |-> FALSE,
              raced |-> FALSE, out |-> "none"]

\* The positions at which a goroutine has called Lock and RLock.
LockWaits == {"lock", "regLock"}

RLockWaits == {"rlock", "getRLock"}

\* The mutex a goroutine at such a position has called.
Wanted(th, t) ==
    IF th[t].at \in {"lock", "getRLock"} THEN th[t].cfg ELSE ClientMu

\* sync.RWMutex.Lock returns when no goroutine holds the mutex.
MayLock(ls, m) ==
    ls[m].writer = NoGoroutine /\ ls[m].readers = {}

\* sync.RWMutex.RLock returns when no goroutine holds the mutex for writing
\* and none has called Lock: a pending Lock keeps new readers out.
MayRLock(ls, th, m) ==
    /\ ls[m].writer = NoGoroutine
    /\ ~\E u \in DOMAIN th : th[u].at \in LockWaits /\ Wanted(th, u) = m

Lock(ls, m, t) == [ls EXCEPT ![m].writer = t]

Unlock(ls, m) == [ls EXCEPT ![m].writer = NoGoroutine]

RLock(ls, m, t) == [ls EXCEPT ![m].readers = @ \cup {t}]

\* An RUnlock that is left out.
RUnlockForgotten(ls, m, t) == ls

RUnlock(ls, m, t) ==
    [ls EXCEPT ![m].readers = @ \ {t}]

\* The key dispatch looks a listener up under: the name of the source in
\* watchConfig, the name of the event (the path of the file) in
\* onConfigChange.
ListenerKey(prov, n) ==
    IF prov = "remote" THEN n ELSE PathOf(n)

\* The variables the lock-level steps leave alone.
lockIdle == <<call, ret, pc, fetched, mu, signal, swaps, calls, reader,
              fileCalls, heap, refs, build, table>>

InitThreads ==
    /\ provider \in {"remote", "file"}
    /\ configs = [n \in ConfigNames |-> [version |-> "1", data |-> TreeA]]
    /\ listeners = <<>>
    /\ threads = [t \in ConfigNames \cup Callers |-> AtRest(t)]
    /\ locks = [m \in LockNames |-> Unlocked]
    /\ ticks = 0
    /\ call = [op |-> "none"]
    /\ ret = Pending
    /\ pc = <<>> /\ fetched = <<>> /\ mu = <<>> /\ signal = 0
    /\ swaps = <<>> /\ calls = <<>> /\ reader = "none" /\ fileCalls = <<>>
    /\ heap = <<>> /\ refs = <<>> /\ build = "amd64" /\ table = <<>>

InitLocks ==
    /\ InitThreads
    /\ provider = "remote"

\* watchConfig, case <-ticker.C: GetConfiguration answers with a version
\* and a document, and the goroutine calls config.mu.Lock().
PollTick(n) ==
    /\ provider = "remote"
    /\ threads[n].at = "select"
    /\ ticks < MaxArrivals
    /\ ticks' = ticks + 1
    /\ \E v \in Versions, d \in Documents :
          threads' = [threads EXCEPT ![n].at = "lock",
                                     ![n].arg = [version |-> v, content |-> d]]
    /\ UNCHANGED <<provider, configs, listeners, locks, lockIdle>>

\* config.mu.Lock() returns. An unchanged version and a document that does
\* not parse lead to config.mu.Unlock(); otherwise the version and the data
\* are assigned and the goroutine calls a.mu.RLock().
PollLock(n) ==
    /\ threads[n].at = "lock"
    /\ MayLock(locks, n)
    /\ locks' = Lock(locks, n, n)
    /\ LET r == threads[n].arg
           p == parser(r.content)
       IN  IF Changed(r.version, configs[n].version) /\ p.err = NoErr
           THEN /\ configs' = [configs EXCEPT ![n] = [version |-> r.version,
                                                     data |-> p.data]]
                /\ threads' = [threads EXCEPT ![n].at = "rlock"]
           ELSE /\ threads' = [threads EXCEPT ![n].at = "unlock"]
                /\ UNCHANGED configs
    /\ UNCHANGED <<provider, listeners, ticks, lockIdle>>

\* viper's watch goroutine: the file of source n was written, and
\* onConfigChange calls f.mu.RLock().
FileEvent(n) ==
    /\ provider = "file"
    /\ threads[n].at = "select"
    /\ ticks < MaxArrivals
    /\ ticks' = ticks + 1
    /\ threads' = [threads EXCEPT ![n].at = "rlock"]
    /\ UNCHANGED <<provider, configs, listeners, locks, lockIdle>>

\* a.mu.RLock() (f.mu.RLock()) returns, and the listener of the source is
\* looked up and, where there is one, called.
PollRLock(n) ==
    /\ threads[n].at = "rlock"
    /\ MayRLock(locks, threads, ClientMu)
    /\ locks' = RLock(locks, ClientMu, n)
    /\ LET k == ListenerKey(provider, n)
       IN  threads' = IF k \in DOMAIN listeners
                      THEN [threads EXCEPT ![n].at = "callback",
                                           ![n].op = listeners[k]]
                      ELSE [threads EXCEPT ![n].at = "return"]
    /\ UNCHANGED <<provider, configs, listeners, ticks, lockIdle>>

\* A method of the client returns: to the listener that called it, or to the
\* calling goroutine.
Returned(th, t, result) ==
    IF th[t].inCallback
    THEN [th EXCEPT ![t].at = "return", ![t].inCallback = FALSE,
                    ![t].arg = "none", ![t].out = result]
    ELSE [th EXCEPT ![t] = [AtRest(t) EXCEPT !.out = result]]

\* The listener called by the goroutine of source n calls the client from
\* inside the callback, on the goroutine that called it: Get on its own
\* source, or AddChangeListener or RemoveChangeListener for its own source.
ListenerCalls(n) ==
    /\ threads[n].at = "callback"
    /\ threads[n].op \in ListenerKinds \ PlainListeners
    /\ threads' =
          IF threads[n].op = "get"
          THEN [threads EXCEPT
                   ![n].at = IF provider = "remote" THEN "getRLock"
                             ELSE "mapaccess",
                   ![n].inCallback = TRUE]
          ELSE [threads EXCEPT
                   ![n].at = "regLock",
                   ![n].arg = [op |-> threads[n].op,
                               key |-> ListenerKey(provider, n),
                               listener |-> "plain"],
                   ![n].inCallback = TRUE]
    /\ UNCHANGED <<provider, configs, listeners, locks, ticks, lockIdle>>

\* The listener, where one was called, has returned: a.mu.RUnlock()
\* (f.mu.RUnlock(), deferred). watchConfig goes on to config.mu.Unlock(),
\* onConfigChange returns to the watch.
PollRUnlock(n) ==
    /\ \/ threads[n].at = "return"
       \/ threads[n].at = "callback" /\ threads[n].op \in PlainListeners
    /\ locks' = RUnlock(locks, ClientMu, n)
    /\ threads' = [threads EXCEPT
                      ![n].at = IF provider = "remote" THEN "unlock"
                                ELSE "select",
                      ![n].op = "none"]
    /\ UNCHANGED <<provider, configs, listeners, ticks, lockIdle>>

\* config.mu.Unlock(), and the loop is back at its select.
PollUnlock(n) ==
    /\ threads[n].at = "unlock"
    /\ locks' = Unlock(locks, n)
    /\ threads' = [threads EXCEPT ![n].at = "select", ![n].arg = "none"]
    /\ UNCHANGED <<provider, configs, listeners, ticks, lockIdle>>

\* A goroutine calls Get (or a typed accessor, which calls Get) on source
\* n. appConfigClient.Get calls result.mu.RLock(); fileBasedClient.Get
\* reads f.configs[config] with no lock held.
GoGet(t, n) ==
    /\ threads[t].at = "idle"
    /\ ticks < MaxArrivals
    /\ ticks' = ticks + 1
    /\ threads' = [threads EXCEPT
                      ![t].at = IF provider = "remote" THEN "getRLock"
                                ELSE "mapaccess",
                      ![t].cfg = n, ![t].op = "Get", ![t].raced = FALSE]
    /\ UNCHANGED <<provider, configs, listeners, locks, lockIdle>>

\* result.mu.RLock() returns.
GetAcquire(t) ==
    /\ threads[t].at = "getRLock"
    /\ MayRLock(locks, threads, threads[t].cfg)
    /\ locks' = RLock(locks, threads[t].cfg, t)
    /\ threads' = [threads EXCEPT ![t].at = "getRead"]
    /\ UNCHANGED <<provider, configs, listeners, ticks, lockIdle>>

\* Get reads the data it holds the read lock of, and the deferred
\* result.mu.RUnlock() runs.
GetRelease(t) ==
    /\ threads[t].at = "getRead"
    /\ locks' = RUnlock(locks, threads[t].cfg, t)
    /\ threads' = Returned(threads, t, "read")
    /\ UNCHANGED <<provider, configs, listeners, ticks, lockIdle>>

\* What a read of f.configs may give when a delete ran during it: either
\* answer, or the runtime's fatal error "concurrent map read and map
\* write".
RacedReads == {"found", "not added", "fatal"}

\* fileBasedClient.Get: the read of f.configs[config] ends.
GetMapRead(t) ==
    /\ threads[t].at = "mapaccess"
    /\ \E result \in RacedReads :
          /\ \/ threads[t].raced
             \/ result = IF threads[t].cfg \in DOMAIN configs
                         THEN "found" ELSE "not added"
          /\ threads' =
                IF result = "fatal"
                THEN [u \in DOMAIN threads |->
                         [threads[u] EXCEPT
                             !.at = "dead",
                             !.out = IF u = t THEN "fatal" ELSE @]]
                ELSE Returned(threads, t, result)
    /\ UNCHANGED <<provider, configs, listeners, locks, ticks, lockIdle>>

\* A goroutine calls AddChangeListener or RemoveChangeListener for source
\* n, which calls a.mu.Lock() (f.mu.Lock()).
GoRegistry(t, n, op, l) ==
    /\ threads[t].at = "idle"
    /\ ticks < MaxArrivals
    /\ ticks' = ticks + 1
    /\ threads' = [threads EXCEPT
                      ![t].at = "regLock", ![t].cfg = n, ![t].op = op,
                      ![t].arg = [op |-> op,
                                  key |-> ListenerKey(provider, n),
                                  listener |-> l]]
    /\ UNCHANGED <<provider, configs, listeners, locks, lockIdle>>

\* fileBasedClient.Close calls f.mu.Lock().
GoClose(t) ==
    /\ provider = "file"
    /\ threads[t].at = "idle"
    /\ ticks < MaxArrivals
    /\ ticks' = ticks + 1
    /\ threads' = [threads EXCEPT
                      ![t].at = "regLock", ![t].op = "Close",
                      ![t].arg = [op |-> "close"]]
    /\ UNCHANGED <<provider, configs, listeners, locks, lockIdle>>

\* a.mu.Lock() (f.mu.Lock()) returns: the listener is set or deleted under
\* the lock; Close goes on to its loops.
RegistryAcquire(t) ==
    /\ threads[t].at = "regLock"
    /\ MayLock(locks, ClientMu)
    /\ locks' = Lock(locks, ClientMu, t)
    /\ LET a == threads[t].arg
       IN  /\ listeners' =
                 IF a.op = "add"
                 THEN ClientAddChangeListener(provider, configs, listeners,
                                              a.key, a.listener).listeners
                 ELSE IF a.op = "remove"
                 THEN ClientRemoveChangeListener(provider, configs,
                                                 listeners, a.key).listeners
                 ELSE listeners
           /\ threads' = [threads EXCEPT
                             ![t].at = IF a.op = "close" THEN "closing"
                                       ELSE "regHeld"]
    /\ UNCHANGED <<provider, configs, ticks, lockIdle>>

\* Close, for k := range f.configs { delete(f.configs, k) }: one delete. A
\* read of the map that is under way meets it.
CloseDelete(t) ==
    /\ threads[t].at = "closing"
    /\ \E k \in DOMAIN configs :
          configs' = Delete(configs, k)
    /\ threads' = [u \in DOMAIN threads |->
                      IF threads[u].at = "mapaccess"
                      THEN [threads[u] EXCEPT !.raced = TRUE]
                      ELSE threads[u]]
    /\ UNCHANGED <<provider, listeners, locks, ticks, lockIdle>>

\* Close, the second loop: the listeners are deleted.
CloseListeners(t) ==
    /\ threads[t].at = "closing"
    /\ DOMAIN configs = {}
    /\ listeners' = <<>>
    /\ threads' = [threads EXCEPT ![t].at = "regHeld"]
    /\ UNCHANGED <<provider, configs, locks, ticks, lockIdle>>

\* The deferred a.mu.Unlock() (f.mu.Unlock()).
RegistryRelease(t) ==
    /\ threads[t].at = "regHeld"
    /\ locks' = Unlock(locks, ClientMu)
    /\ threads' = Returned(threads, t, "none")
    /\ UNCHANGED <<provider, configs, listeners, ticks, lockIdle>>

\* The steps of the code: everything but the arrival of a call, a tick or
\* a file event.
StepsLocks ==
    \E t \in ConfigNames \cup Callers :
        \/ PollLock(t)
        \/ PollRLock(t)
        \/ PollRUnlock(t)
        \/ PollUnlock(t)
        \/ GetAcquire(t)
        \/ GetRelease(t)
        \/ RegistryAcquire(t)
        \/ RegistryRelease(t)

ArrivalsLocks ==
    \/ \E n \in ConfigNames : PollTick(n)
    \/ \E t \in Callers, n \in ConfigNames : GoGet(t, n)
    \/ \E t \in Callers, n \in ConfigNames, l \in PlainListeners :
          GoRegistry(t, n, "add", l)
    \/ \E t \in Callers, n \in ConfigNames :
          GoRegistry(t, n, "remove", "none")

NextLocks == StepsLocks \/ ArrivalsLocks

\* The remote client with listeners that only return. A goroutine that
\* can take a step takes one: the scheduler runs what is runnable.
SpecLocks == InitLocks /\ [][NextLocks]_vars /\ WF_vars(StepsLocks)

StepsThreads ==
    \/ StepsLocks
    \/ \E n \in ConfigNames : ListenerCalls(n)
    \/ \E t \in ConfigNames \cup Callers : GetMapRead(t)
    \/ \E t \in Callers : CloseDelete(t)
    \/ \E t \in Callers : CloseListeners(t)

ArrivalsThreads ==
    \/ ArrivalsLocks
    \/ \E n \in ConfigNames : FileEvent(n)
    \/ \E t \in Callers, n \in ConfigNames,
          l \in ListenerKinds \ PlainListeners :
          GoRegistry(t, n, "add", l)
    \/ \E t \in Callers : GoClose(t)

NextThreads == StepsThreads \/ ArrivalsThreads

\* A client of either provider, with listeners that may call back into it.
SpecThreads == InitThreads /\ [][NextThreads]_vars /\ WF_vars(StepsThreads)

----------------------------------------------------------------------------
(* The counter specification: the four operations of the counter business *)
(* logic, each a transaction on the counter table, run by goroutines that  *)
(* interleave statement by statement.  The database is MySQL with its      *)
(* default isolation: a select reads what is committed and takes no lock,  *)
(* an insert or update locks its row until the transaction ends, and id    *)
(* is the key of the table.                                                *)

\* The calls in a run.
MaxCalls == 3

\* The goroutines that serve requests.
Workers == {"w1", "w2"}

CounterKeys == {"k1", "k2"}

CounterOps ==
    {"CreateCounter", "IncrementCounter", "DecrementCounter", "CurrentCount"}

ErrCounterExists == "counter already exists"

ErrCounterMissing == "counter does not exist"

\* What the driver answers when a statement fails: a timeout of the
\* context, a lost connection, a duplicate key.
ErrDatabase == "database error"

\* A row of the table: the count, and as history the IncrementCounter and
\* DecrementCounter calls on it that committed.
Row(c, i, d) == [count |-> c, incs |-> i, decs |-> d]

NoStatement == [kind |-> "none"]

WorkerAtRest ==
    [at |-> "idle", op |-> "none", key |-> "none", cancellable |-> FALSE,
     tx |-> "none", answered |-> FALSE, exists |-> FALSE, count |-> 0,
     statement |-> NoStatement, executed |-> FALSE, err |-> "none",
     val |-> 0]

\* doesCounterExist: the select, and the scan of its row. Every failure of
\* the scan, the missing row among them, is answered with (0, false).
doesCounterExist(rows, key, answers) ==
    IF answers /\ key \in DOMAIN rows
    THEN [count |-> rows[key].count, exists |-> TRUE]
    ELSE [count |-> 0, exists |-> FALSE]

\* What an operation does with the answer of doesCounterExist: return, go
\* on to a statement, or go on to the commit.
Return(v, e) == [at |-> "returned", val |-> v, err |-> e,
                 statement |-> NoStatement]

Statement(kind, v) == [at |-> "exec", val |-> 0, err |-> "none",
                       statement |-> [kind |-> kind, value |-> v]]

ToCommit == [at |-> "commit", val |-> 0, err |-> "none",
             statement |-> NoStatement]

\* A CreateCounter that does not look at what doesCounterExist answered.
CreateCounterUnchecked(count, exists) ==
    Statement("insert", 0)

CreateCounter(count, exists) ==
    IF exists THEN Return(0, ErrCounterExists)
    ELSE Statement("insert", 0)

IncrementCounter(count, exists) ==
    IF ~exists THEN Return(0, ErrCounterMissing)
    ELSE Statement("update", count + 1)

\* A DecrementCounter without the test count > 0.
DecrementCounterUnguarded(count, exists) ==
    IF ~exists THEN Return(0, ErrCounterMissing)
    ELSE Statement("update", count - 1)

DecrementCounter(count, exists) ==
    IF ~exists THEN Return(0, ErrCounterMissing)
    ELSE IF count > 0 THEN Statement("update", count - 1)
    ELSE ToCommit

CurrentCount(count, exists) ==
    IF ~exists THEN Return(0, ErrCounterMissing)
    ELSE Return(count, NoErr)

AfterLookup(op, count, exists) ==
    IF op = "CreateCounter" THEN CreateCounter(count, exists)
    ELSE IF op = "IncrementCounter" THEN IncrementCounter(count, exists)
    ELSE IF op = "DecrementCounter" THEN DecrementCounter(count, exists)
    ELSE CurrentCount(count, exists)

\* The variables the counter steps leave alone.
counterIdle == <<provider, configs, call, ret, listeners, pc, fetched, mu,
                 signal, swaps, calls, reader, fileCalls, heap, refs, build>>

InitCounter ==
    /\ table \in {<<>>, [k \in {"k1"} |-> Row(0, 0, 0)]}
    /\ threads = [t \in Workers |-> WorkerAtRest]
    /\ locks = [k \in CounterKeys |-> NoGoroutine]
    /\ ticks = 0
    /\ provider = "none"
    /\ configs = <<>>
    /\ call = [op |-> "none"]
    /\ ret = Pending
    /\ listeners = <<>> /\ pc = <<>> /\ fetched = <<>> /\ mu = <<>>
    /\ signal = 0 /\ swaps = <<>> /\ calls = <<>> /\ reader = "none"
    /\ fileCalls = <<>> /\ heap = <<>> /\ refs = <<>> /\ build = "amd64"

\* A goroutine enters an operation: getCounterContext gives a context with
\* a timeout, or, where the timeout is not configured, the context of the
\* caller with a cancel that does nothing; then db.BeginTx, which may fail.
BeginTx(t, op, key) ==
    /\ threads[t].at \in {"idle", "returned"}
    /\ ticks < MaxCalls
    /\ ticks' = ticks + 1
    /\ \E cancellable, begins \in BOOLEAN :
          threads' = [threads EXCEPT ![t] =
             IF begins
             THEN [WorkerAtRest EXCEPT !.at = "lookup", !.op = op,
                                       !.key = key, !.tx = "open",
                                       !.cancellable = cancellable]
             ELSE [WorkerAtRest EXCEPT !.at = "returned", !.op = op,
                                       !.key = key, !.err = ErrDatabase,
                                       !.cancellable = cancellable]]
    /\ UNCHANGED <<table, locks, counterIdle>>

\* doesCounterExist inside the transaction, and what the operation does
\* with its answer up to its next statement or its return.
Lookup(t) ==
    /\ threads[t].at = "lookup"
    /\ \E answers \in BOOLEAN :
          LET r == doesCounterExist(table, threads[t].key, answers)
              next == AfterLookup(threads[t].op, r.count, r.exists)
          IN  threads' = [threads EXCEPT
                             ![t].answered = answers,
                             ![t].exists = r.exists,
                             ![t].count = r.count,
                             ![t].at = next.at,
                             ![t].val = next.val,
                             ![t].err = next.err,
                             ![t].statement = next.statement]
    /\ UNCHANGED <<table, locks, ticks, counterIdle>>

\* tx.ExecContext: the insert or the update. It fails on a timeout or a
\* lost connection, and an insert fails on a key the table has; otherwise
\* it waits for the lock of the row, takes it and goes on to the commit.
Exec(t) ==
    /\ threads[t].at = "exec"
    /\ LET k == threads[t].key
           duplicate == threads[t].statement.kind = "insert"
                        /\ k \in DOMAIN table
       IN  \/ /\ threads' = [threads EXCEPT ![t].at = "returned",
                                            ![t].err = ErrDatabase]
              /\ UNCHANGED locks
           \/ /\ ~duplicate
              /\ locks[k] = NoGoroutine
              /\ locks' = [locks EXCEPT ![k] = t]
              /\ threads' = [threads EXCEPT ![t].at = "commit",
                                            ![t].executed = TRUE]
    /\ UNCHANGED <<table, ticks, counterIdle>>

\* What a committed transaction leaves in the table.
Committed(rows, w) ==
    LET k == w.key
        s == w.statement
        old == IF k \in DOMAIN rows THEN rows[k] ELSE Row(0, 0, 0)
        i == IF w.op = "IncrementCounter" THEN 1 ELSE 0
        d == IF w.op = "DecrementCounter" THEN 1 ELSE 0
    IN  IF w.executed /\ s.kind = "insert" THEN Put(rows, k, Row(s.value, 0, 0))
        ELSE IF k \notin DOMAIN rows THEN rows
        ELSE IF w.executed
        THEN [rows EXCEPT ![k] = Row(s.value, old.incs + i, old.decs + d)]
        ELSE [rows EXCEPT ![k] = Row(old.count, old.incs + i, old.decs + d)]

\* return tx.Commit(): the transaction ends, committed or, where the commit
\* fails, rolled back; its row lock is released.
Commit(t) ==
    /\ threads[t].at = "commit"
    /\ \E commits \in BOOLEAN :
          /\ table' = IF commits THEN Committed(table, threads[t]) ELSE table
          /\ threads' = [threads EXCEPT
                            ![t].at = "returned",
                            ![t].tx = IF commits THEN "committed"
                                      ELSE "rolled back",
                            ![t].err = IF commits THEN NoErr
                                       ELSE ErrDatabase]
    /\ locks' = [k \in DOMAIN locks |->
                    IF locks[k] = t THEN NoGoroutine ELSE locks[k]]
    /\ UNCHANGED <<ticks, counterIdle>>

\* After the return the deferred cancel has run: where the context was made
\* by getCounterContext, database/sql rolls the open transaction back on
\* its own goroutine.
CancelRollsBack(t) ==
    /\ threads[t].at = "returned"
    /\ threads[t].tx = "open"
    /\ threads[t].cancellable
    /\ threads' = [threads EXCEPT ![t].tx = "rolled back"]
    /\ UNCHANGED <<table, locks, ticks, counterIdle>>

NextCounter ==
    \/ \E t \in Workers, op \in CounterOps, k \in CounterKeys :
          BeginTx(t, op, k)
    \/ \E t \in Workers : Lookup(t)
    \/ \E t \in Workers : Exec(t)
    \/ \E t \in Workers : Commit(t)
    \/ \E t \in Workers : CancelRollsBack(t)

SpecCounter == InitCounter /\ [][NextCounter]_vars

----------------------------------------------------------------------------
(* C31 to C39 *)

\* C31: the remote constructor never goes on with an unset parser: given a
\* configType that is a string other than json, yaml and toml, it returns
\* an error and no client, as the file-based constructor does, and neither
\* panics in its first fetch nor returns a client that has no parser.
C31_RemoteRejectsUnknownConfigType ==
    ( /\ call.op = "New" /\ ret # Pending
      /\ call.provider = AWSAppConfig
      /\ "configType" \in DOMAIN call.params
      /\ IsStr(call.params["configType"])
      /\ call.params["configType"].s \notin {"json", "yaml", "toml"} ) =>
        /\ ~ret.client
        /\ ret.err # NoErr
        /\ ~ret.panic

\* The goroutines a waiting goroutine waits for: the holders of the mutex
\* it has called and, for RLock, the goroutines whose Lock is pending.
BlockedBy(th, ls, t) ==
    LET m == Wanted(th, t)
        writers == {ls[m].writer} \ {NoGoroutine}
    IN  IF th[t].at \in LockWaits THEN writers \cup ls[m].readers
        ELSE IF th[t].at \in RLockWaits
        THEN writers \cup {u \in DOMAIN th :
                              th[u].at \in LockWaits /\ Wanted(th, u) = m}
        ELSE {}

RECURSIVE WaitedFor(_, _, _, _)
WaitedFor(th, ls, S, k) ==
    IF k = 0 THEN S
    ELSE WaitedFor(th, ls,
                   S \cup UNION {BlockedBy(th, ls, u) : u \in S}, k - 1)

\* No goroutine waits, directly or through others, for itself.
NoWaitCycle ==
    \A t \in DOMAIN threads :
        t \notin WaitedFor(threads, locks, BlockedBy(threads, locks, t),
                           Cardinality(DOMAIN threads))

\* C32: in the remote client with listeners that do not call back into it,
\* the source locks and the registry lock are never waited on in a cycle,
\* and every goroutine that has begun an operation (Get, AddChangeListener,
\* RemoveChangeListener, a cycle of a poll loop) gets the locks it calls
\* and comes back to rest: the caller to its caller, the loop to its
\* select.
C32_RemoteOperationsComplete ==
    /\ []NoWaitCycle
    /\ \A t \in ConfigNames \cup Callers :
          (threads[t].at # AtRest(t).at) ~> (threads[t].at = AtRest(t).at)

\* A chain of waits: a poll loop is inside dispatch with the registry read
\* locked, an AddChangeListener or RemoveChangeListener waits for it, and
\* the other poll loop, its source write locked, waits behind that call.
C32_Witness ==
    /\ provider = "remote"
    /\ \E g \in Callers, p, q \in ConfigNames :
          /\ p # q
          /\ p \in locks[ClientMu].readers
          /\ threads[g].at = "regLock"
          /\ threads[q].at = "rlock"
          /\ locks[q].writer = q
          /\ BlockedBy(threads, locks, q) = {g}
          /\ BlockedBy(threads, locks, g) = {p}

\* C33: in the remote client a listener that calls Get (or a typed
\* accessor) on its own source from inside the callback gets its answer:
\* the call does not wait forever for the lock of the source, the listener
\* returns, and the poll loop comes back to its select.
C33_ListenerMayReadItsSource ==
    \A n \in ConfigNames :
        ( /\ provider = "remote"
          /\ threads[n].inCallback
          /\ threads[n].at = "getRLock" ) ~> (threads[n].at = "select")

\* C34: for both providers a listener that calls AddChangeListener or
\* RemoveChangeListener from inside the callback gets the registry lock:
\* the call returns, and the poll loop or the watch that called the
\* listener comes back to its select.
C34_ListenerMayChangeRegistry ==
    \A n \in ConfigNames :
        (threads[n].inCallback /\ threads[n].at = "regLock")
            ~> (threads[n].at = "select")

\* The same for the file-based client alone.
C34_FileListenerMayChangeRegistry ==
    \A n \in ConfigNames :
        ( /\ provider = "file"
          /\ threads[n].inCallback
          /\ threads[n].at = "regLock" ) ~> (threads[n].at = "select")

\* C35: in the file-based client no accessor is inside its read of the
\* source map while Close, holding the lock, is deleting from it; an
\* accessor that has returned saw its source registered or removed.
C35_FileMapNeverReadDuringClose ==
    /\ \A t \in DOMAIN threads :
          threads[t].at = "mapaccess" => locks[ClientMu].writer = NoGoroutine
    /\ \A t \in DOMAIN threads :
          threads[t].out \in {"none", "read", "found", "not added"}

\* C36: the stored count of every counter is at least 0 in every reachable
\* state, whatever calls of CreateCounter, IncrementCounter and
\* DecrementCounter ran or are running; a DecrementCounter that finds its
\* counter at 0 issues no update, goes on to the commit and returns what
\* the commit returns: nil, the count as it was, unless the commit itself
\* fails in the database.
C36_CountNeverNegative ==
    /\ \A k \in DOMAIN table : table[k].count >= 0
    /\ \A t \in DOMAIN threads :
          ( /\ threads[t].op = "DecrementCounter"
            /\ threads[t].exists
            /\ threads[t].count = 0 ) =>
              /\ threads[t].at \in {"commit", "returned"}
              /\ ~threads[t].executed
              /\ threads[t].at = "returned" =>
                    \/ threads[t].err = NoErr /\ threads[t].tx = "committed"
                    \/ /\ threads[t].err = ErrDatabase
                       /\ threads[t].tx = "rolled back"

\* A DecrementCounter has found its counter at 0 and returned nil, and the
\* count is 0.
C36_Witness ==
    \E t \in DOMAIN threads :
        /\ threads[t].op = "DecrementCounter"
        /\ threads[t].exists
        /\ threads[t].count = 0
        /\ threads[t].at = "returned"
        /\ threads[t].err = NoErr
        /\ table[threads[t].key].count = 0
        /\ table[threads[t].key].decs > 0

\* C37: no update is lost: a counter no DecrementCounter has committed on
\* holds exactly as many as the IncrementCounter calls that returned nil,
\* also when calls on the same key run concurrently.
C37_NoLostUpdate ==
    \A k \in DOMAIN table :
        table[k].decs = 0 => table[k].count = table[k].incs

C39_NoTransactionLeftOpen ==
    \A t \in DOMAIN threads :
        threads[t].at = "returned" => threads[t].tx # "open"


====
